---- MODULE Spec2Model ----
(***************************************************************************)
(* Time-tick synchronisation of the root coordinator                       *)
(* (internal/rootcoord/timeticksync.go): the per-proxy tick table, the DDL *)
(* barrier, the drain into sendChan and the startWatch loop that reduces   *)
(* every drained snapshot to one heartbeat per channel.                    *)
(***************************************************************************)
EXTENDS Integers, Sequences, FiniteSets, TLC

(***************************************************************************)
(* Bounds of the model.  Timestamps are 0..MaxTs and MaxTs stands for      *)
(* math.MaxUint64: timestamps are only compared, never added to.           *)
(***************************************************************************)
MaxTs == 2
MaxProxy == 2
MaxChan == 1
MaxCnt == 2
MaxRounds == 1
MaxRoundsMono == 2
MaxCntMono == 1
MaxRoundsWin == 2
MaxRoundsQ == 20
\* reports a proxy makes in one round while another proxy stays idle
MaxCntWarn == 30

\* cap of the buffered channel sendChan
QueueCap == 16

MaxUint64 == MaxTs
Timestamps == 0..MaxUint64
\* session ids of the proxies; MaxProxy + 1 is an id that never registers
ProxyIDs == 1..MaxProxy
\* the root coordinator's own id (timetickSync.sourceID)
sourceID == 1
\* physical channel names, as numbers
Channels == 1..MaxChan

\* the channel names of the behaviours with one channel more
FanChannels == 1..(MaxChan + 1)

\* a nil *chanTsMsg in proxyTimeTick
Nil == [nil |-> TRUE]

\* nothing sent yet in startWatch's current iteration
NoIter == [sent |-> [c \in FanChannels |-> 0], failed |-> {}]

\* the goroutines of the step-by-step behaviours
MaxThreads == 2
\* arguments of one call of minTimeTick
MaxArgs == 4
\* DDL operations in progress when a concurrent caller starts another
MaxDdl == 1
Threads == 1..MaxThreads
\* the locals of a goroutine that is in no method of timetickSync; `seen` is
\* history: the table as sendToChannel found it when it decided to drain
NoLoc == [arg |-> Nil, prev |-> Nil, ddlMinTs |-> 0, ptt |-> <<>>, seen |-> <<>>]
\* no goroutine is inside timetickSync: lock and ddl name the holder of
\* t.lock and of t.ddlLock, 0 for none
NoThreads ==
    [pc |-> [t \in Threads |-> "idle"], lock |-> 0, ddl |-> 0,
     loc |-> [t \in Threads |-> NoLoc]]

VARIABLES
    proxyTimeTick,  \* map id -> Nil or chanTsMsg             (t.proxyTimeTick)
    sendChan,       \* the buffered channel, a FIFO of snapshots (t.sendChan)
    sending,        \* <<ptt>> while a caller is blocked in `t.sendChan <- ptt`
                    \* (it holds t.lock), <<>> otherwise
    ddlMinTs,       \* t.ddlMinTs
    ddlTsSet,       \* t.ddlTsSet
    ctxDone,        \* t.ctx is cancelled
    pc,             \* startWatch: "select", "send" (workers running, wg.Wait),
                    \* "stopped" (returned), "panic" (nil dereference)
    proxyTimetick,  \* startWatch's local: the snapshot taken from sendChan
    workers,        \* channels whose worker goroutine has not finished yet
    stream,         \* per channel, the timestamps of the heartbeats broadcast so far
    rounds,         \* history: number of drains so far
    window,         \* history: heartbeats per channel since the last
                    \* addDdlTimeTick with no updateTimeTick call after it
    lastOp,         \* history: the last operation and what it did
    env,            \* history: what each proxy reported last (environment)
    track,          \* the history variables this behaviour records
    closed,         \* t.sendChan has been closed (the `!ok` of the receive)
    thr,            \* the goroutines that call into timetickSync step by step:
                    \* their position, who holds t.lock and t.ddlLock
    iter            \* history: per channel, the calls of sendTimeTickToChannel
                    \* in startWatch's current iteration, and those that failed

vars == <<proxyTimeTick, sendChan, sending, ddlMinTs, ddlTsSet, ctxDone, pc,
          proxyTimetick, workers, stream, rounds, window, lastOp, env, track,
          closed, thr, iter>>

tickVars == <<proxyTimeTick, sendChan, sending, rounds>>
ddlVars == <<ddlMinTs, ddlTsSet>>
watchVars == <<pc, proxyTimetick, workers, stream>>
histVars == <<window, env, track, closed, thr, iter>>

----------------------------------------------------------------------------
(* helpers *)

SetMin(S) == CHOOSE x \in S : \A y \in S : x <= y
SetMax(S) == CHOOSE x \in S : \A y \in S : x >= y

\* lastOp is recorded in the behaviours that track it
Log(event) == IF "lastOp" \in track THEN event ELSE lastOp

\* the process is alive and the caller can take t.lock
Alive == pc # "panic"
LockFree == sending = <<>>

AllNil(ptt) == \A id \in DOMAIN ptt : ptt[id] = Nil
\* every registered proxy has reported and there is at least one
Complete(ptt) == DOMAIN ptt # {} /\ \A id \in DOMAIN ptt : ptt[id] # Nil

\* number of drained snapshots not yet taken by startWatch
InFlight == Len(sendChan) + Len(sending)

----------------------------------------------------------------------------
(* chanTsMsg *)

\* The chanTs map of a message: a later index of ChannelNames overwrites an
\* earlier one with the same name.
ChanTsOf(in) ==
    [c \in {in.ChannelNames[i] : i \in 1..Len(in.ChannelNames)} |->
        in.Timestamps[SetMax({i \in 1..Len(in.ChannelNames) : in.ChannelNames[i] = c})]]

\* ddlAt is a history field: the barrier set when the report was accepted.
newChanTsMsg(in, cnt) ==
    [chanTs |-> ChanTsOf(in), defaultTs |-> in.DefaultTimestamp, cnt |-> cnt,
     ddlAt |-> IF "ddlAt" \in track THEN ddlTsSet ELSE {}]

\* getTimetick without its lookup in chanTs
getTimetick_DefaultOnly(c, channelName) == c.defaultTs

getTimetick(c, channelName) ==
    IF channelName \in DOMAIN c.chanTs THEN c.chanTs[channelName] ELSE c.defaultTs

----------------------------------------------------------------------------
(* the DDL barrier *)

\* addDdlTimeTick without its update of ddlMinTs
AddDdl_StaleMin(min, set, ts) == <<min, set \cup {ts}>>

\* the barrier after addDdlTimeTick(ts), as <<ddlMinTs, ddlTsSet>>
AddDdl(min, set, ts) ==
    <<IF ts < min THEN ts ELSE min, set \cup {ts}>>

\* the re-calculation loop started from the zero value instead of MaxUint64
RecalcMinTs_FromZero(set) == SetMin(set \cup {0})

\* the re-calculation loop of removeDdlTimeTick
RecalcMinTs(set) == SetMin(set \cup {MaxUint64})

\* removeDdlTimeTick without the re-calculation of minTs
RemoveDdl_NoRecalc(min, set, ts) ==
    LET rest == set \ {ts}
    IN  IF rest = {} THEN <<MaxUint64, rest>> ELSE <<min, rest>>

\* the barrier after removeDdlTimeTick(ts), as <<ddlMinTs, ddlTsSet>>
RemoveDdl(min, set, ts) ==
    LET rest == set \ {ts}
    IN  IF rest = {} THEN <<MaxUint64, rest>>
        ELSE IF min = ts THEN <<RecalcMinTs(rest), rest>>
        ELSE <<min, rest>>

getDdlMinTimeTick == ddlMinTs

\* what lastOp records of a barrier operation: with "ddlLog" tracked, also its
\* argument, the barrier before it and, for a remove that directly follows the
\* add of the same timestamp, the barrier before that add
DdlEvent(name, ts) ==
    IF "ddlLog" \in track
    THEN [op |-> name, ts |-> ts, before |-> <<ddlMinTs, ddlTsSet>>,
          undo |-> IF /\ name = "removeDdlTimeTick"
                      /\ lastOp.op = "addDdlTimeTick"
                      /\ lastOp.ts = ts
                   THEN <<lastOp.before>> ELSE <<>>]
    ELSE [op |-> name]

\* the window history: opened by addDdlTimeTick, closed by updateTimeTick
WindowOpen ==
    [open |-> TRUE, n |-> [c \in Channels |-> 0],
     inflight |-> [c \in Channels |->
                    InFlight + (IF pc = "send" /\ c \in workers THEN 1 ELSE 0)]]
WindowClosed ==
    [open |-> FALSE, n |-> [c \in Channels |-> 0], inflight |-> [c \in Channels |-> 0]]

addDdlTimeTick(ts) ==
    /\ Alive
    /\ ddlMinTs' = AddDdl(ddlMinTs, ddlTsSet, ts)[1]
    /\ ddlTsSet' = AddDdl(ddlMinTs, ddlTsSet, ts)[2]
    /\ window' = IF "window" \in track THEN WindowOpen ELSE window
    /\ lastOp' = Log(DdlEvent("addDdlTimeTick", ts))
    /\ UNCHANGED <<tickVars, watchVars, ctxDone, env, track, closed, thr, iter>>

removeDdlTimeTick(ts) ==
    /\ Alive
    /\ ddlMinTs' = RemoveDdl(ddlMinTs, ddlTsSet, ts)[1]
    /\ ddlTsSet' = RemoveDdl(ddlMinTs, ddlTsSet, ts)[2]
    /\ lastOp' = Log(DdlEvent("removeDdlTimeTick", ts))
    /\ UNCHANGED <<tickVars, watchVars, ctxDone, histVars>>

\* a call of getDdlMinTimeTick from outside updateTimeTick
readDdlMinTimeTick ==
    /\ Alive
    /\ lastOp' = Log([op |-> "getDdlMinTimeTick", ret |-> getDdlMinTimeTick])
    /\ UNCHANGED <<tickVars, ddlVars, watchVars, ctxDone, histVars>>

----------------------------------------------------------------------------
(* the tick table and the drain *)

IdleProxyList(ptt) == {id \in DOMAIN ptt : ptt[id] = Nil}

MaxCntOf(ptt) ==
    IF IdleProxyList(ptt) = DOMAIN ptt THEN 0
    ELSE SetMax({ptt[id].cnt : id \in DOMAIN ptt \ IdleProxyList(ptt)})

\* sendToChannel without `t.proxyTimeTick[k] = nil`
sendToChannel_KeepEntries(ptt) ==
    IF DOMAIN ptt = {} THEN [tbl |-> ptt, snap |-> <<>>, warn |-> FALSE]
    ELSE IF IdleProxyList(ptt) # {}
    THEN [tbl |-> ptt, snap |-> <<>>, warn |-> MaxCntOf(ptt) % 10 = 0]
    ELSE [tbl |-> ptt, snap |-> <<ptt>>, warn |-> FALSE]

\* sendToChannel without the detection of idle proxies
sendToChannel_IgnoreIdle(ptt) ==
    IF IdleProxyList(ptt) = DOMAIN ptt
    THEN [tbl |-> ptt, snap |-> <<>>, warn |-> FALSE]
    ELSE [tbl |-> [k \in DOMAIN ptt |-> Nil],
          snap |-> <<[k \in DOMAIN ptt \ IdleProxyList(ptt) |-> ptt[k]]>>,
          warn |-> FALSE]

\* sendToChannel sending the table itself instead of a clone: the entries
\* set to nil are nil in the snapshot too
sendToChannel_Alias(ptt) ==
    IF DOMAIN ptt = {} THEN [tbl |-> ptt, snap |-> <<>>, warn |-> FALSE]
    ELSE IF IdleProxyList(ptt) # {}
    THEN [tbl |-> ptt, snap |-> <<>>, warn |-> MaxCntOf(ptt) % 10 = 0]
    ELSE [tbl |-> [k \in DOMAIN ptt |-> Nil],
          snap |-> <<[k \in DOMAIN ptt |-> Nil]>>, warn |-> FALSE]

\* sendToChannel warning at every attempt that finds an idle proxy
sendToChannel_WarnEvery(ptt) ==
    IF DOMAIN ptt = {} THEN [tbl |-> ptt, snap |-> <<>>, warn |-> FALSE]
    ELSE IF IdleProxyList(ptt) # {}
    THEN [tbl |-> ptt, snap |-> <<>>, warn |-> TRUE]
    ELSE [tbl |-> [k \in DOMAIN ptt |-> Nil], snap |-> <<ptt>>, warn |-> FALSE]

\* sendToChannel on table ptt, up to the channel send: the table it leaves,
\* the snapshot it sends (<<>> when it returns early) and whether it warns
sendToChannel(ptt) ==
    IF DOMAIN ptt = {} THEN [tbl |-> ptt, snap |-> <<>>, warn |-> FALSE]
    ELSE IF IdleProxyList(ptt) # {}
    THEN [tbl |-> ptt, snap |-> <<>>, warn |-> MaxCntOf(ptt) % 10 = 0]
    ELSE [tbl |-> [k \in DOMAIN ptt |-> Nil], snap |-> <<ptt>>, warn |-> FALSE]

\* a send that gives up when the buffer is full (select with a default case)
ChanSend_DropWhenFull(snap) ==
    IF snap = <<>> THEN UNCHANGED <<sendChan, sending, rounds>>
    ELSE /\ rounds' = rounds + 1
         /\ UNCHANGED sending
         /\ IF Len(sendChan) < QueueCap
            THEN sendChan' = Append(sendChan, snap[1])
            ELSE UNCHANGED sendChan

\* a send into a channel without a capacity
ChanSend_Unbounded(snap) ==
    IF snap = <<>> THEN UNCHANGED <<sendChan, sending, rounds>>
    ELSE /\ rounds' = rounds + 1
         /\ sendChan' = Append(sendChan, snap[1])
         /\ UNCHANGED sending

\* `t.sendChan <- ptt`: buffered when there is room, otherwise the caller
\* blocks in the send, still holding t.lock
ChanSend(snap) ==
    IF snap = <<>> THEN UNCHANGED <<sendChan, sending, rounds>>
    ELSE /\ rounds' = rounds + 1
         /\ IF Len(sendChan) < QueueCap
            THEN sendChan' = Append(sendChan, snap[1]) /\ UNCHANGED sending
            ELSE sending' = snap /\ UNCHANGED sendChan

\* what lastOp records of a call that reached sendToChannel with table ptt
Reached(name, ptt) ==
    [op |-> name, why |-> "ok", stc |-> TRUE, full |-> Complete(ptt),
     warn |-> sendToChannel(ptt).warn, err |-> FALSE]
\* the early returns of updateTimeTick that hand the caller an error
\* (fmt.Errorf); the others return nil
ReturnsError(reason) == reason \in {"invalid", "unrecognized"}

\* what lastOp records of a call that returned before sendToChannel
Returned(name, reason) ==
    [op |-> name, why |-> reason, stc |-> FALSE, full |-> FALSE, warn |-> FALSE,
     err |-> ReturnsError(reason)]

\* updateTimeTick without its "ddl not finished" check
EarlyReturn_NoDdlCheck(in) ==
    IF Len(in.ChannelNames) = 0 /\ in.DefaultTimestamp = 0 THEN "ignored"
    ELSE IF Len(in.Timestamps) # Len(in.ChannelNames) THEN "invalid"
    ELSE IF in.SourceID \notin DOMAIN proxyTimeTick THEN "unrecognized"
    ELSE IF /\ in.SourceID = sourceID
            /\ proxyTimeTick[in.SourceID] # Nil
            /\ in.DefaultTimestamp <= proxyTimeTick[in.SourceID].defaultTs
         THEN "go back"
    ELSE ""

\* updateTimeTick with `||` for `&&` in its first check
EarlyReturn_IgnoreEither(in) ==
    IF Len(in.ChannelNames) = 0 \/ in.DefaultTimestamp = 0 THEN "ignored"
    ELSE IF Len(in.Timestamps) # Len(in.ChannelNames) THEN "invalid"
    ELSE IF in.SourceID \notin DOMAIN proxyTimeTick THEN "unrecognized"
    ELSE IF in.DefaultTimestamp > getDdlMinTimeTick THEN "ddl not finished"
    ELSE IF /\ in.SourceID = sourceID
            /\ proxyTimeTick[in.SourceID] # Nil
            /\ in.DefaultTimestamp <= proxyTimeTick[in.SourceID].defaultTs
         THEN "go back"
    ELSE ""

\* updateTimeTick with `>=` for `>` in its barrier check
EarlyReturn_BlockEqual(in) ==
    IF Len(in.ChannelNames) = 0 /\ in.DefaultTimestamp = 0 THEN "ignored"
    ELSE IF Len(in.Timestamps) # Len(in.ChannelNames) THEN "invalid"
    ELSE IF in.SourceID \notin DOMAIN proxyTimeTick THEN "unrecognized"
    ELSE IF in.DefaultTimestamp >= getDdlMinTimeTick THEN "ddl not finished"
    ELSE IF /\ in.SourceID = sourceID
            /\ proxyTimeTick[in.SourceID] # Nil
            /\ in.DefaultTimestamp <= proxyTimeTick[in.SourceID].defaultTs
         THEN "go back"
    ELSE ""

\* updateTimeTick with `<` for `<=` in its coordinator check
EarlyReturn_StrictGoBack(in) ==
    IF Len(in.ChannelNames) = 0 /\ in.DefaultTimestamp = 0 THEN "ignored"
    ELSE IF Len(in.Timestamps) # Len(in.ChannelNames) THEN "invalid"
    ELSE IF in.SourceID \notin DOMAIN proxyTimeTick THEN "unrecognized"
    ELSE IF in.DefaultTimestamp > getDdlMinTimeTick THEN "ddl not finished"
    ELSE IF /\ in.SourceID = sourceID
            /\ proxyTimeTick[in.SourceID] # Nil
            /\ in.DefaultTimestamp < proxyTimeTick[in.SourceID].defaultTs
         THEN "go back"
    ELSE ""

\* updateTimeTick applying its "go back" check to every proxy
EarlyReturn_GoBackAll(in) ==
    IF Len(in.ChannelNames) = 0 /\ in.DefaultTimestamp = 0 THEN "ignored"
    ELSE IF Len(in.Timestamps) # Len(in.ChannelNames) THEN "invalid"
    ELSE IF in.SourceID \notin DOMAIN proxyTimeTick THEN "unrecognized"
    ELSE IF in.DefaultTimestamp > getDdlMinTimeTick THEN "ddl not finished"
    ELSE IF /\ proxyTimeTick[in.SourceID] # Nil
            /\ in.DefaultTimestamp <= proxyTimeTick[in.SourceID].defaultTs
         THEN "go back"
    ELSE ""

\* why updateTimeTick returns before touching the table, "" if it does not
EarlyReturn(in) ==
    IF Len(in.ChannelNames) = 0 /\ in.DefaultTimestamp = 0 THEN "ignored"
    ELSE IF Len(in.Timestamps) # Len(in.ChannelNames) THEN "invalid"
    ELSE IF in.SourceID \notin DOMAIN proxyTimeTick THEN "unrecognized"
    ELSE IF in.DefaultTimestamp > getDdlMinTimeTick THEN "ddl not finished"
    ELSE IF /\ in.SourceID = sourceID
            /\ proxyTimeTick[in.SourceID] # Nil
            /\ in.DefaultTimestamp <= proxyTimeTick[in.SourceID].defaultTs
         THEN "go back"
    ELSE ""

\* the install without the increment of cnt
Install_NoIncrement(in) ==
    LET prev == proxyTimeTick[in.SourceID]
    IN  [proxyTimeTick EXCEPT ![in.SourceID] =
            IF prev = Nil THEN newChanTsMsg(in, 1) ELSE newChanTsMsg(in, prev.cnt)]

\* the table after the report is installed
Install(in) ==
    LET prev == proxyTimeTick[in.SourceID]
    IN  [proxyTimeTick EXCEPT ![in.SourceID] =
            IF prev = Nil THEN newChanTsMsg(in, 1) ELSE newChanTsMsg(in, prev.cnt + 1)]

\* updateTimeTick reading the map without the `ok` of its lookup: a report
\* from an id with no entry is installed like one from an idle proxy
updateTimeTick_NoLookupCheck(in) ==
    LET known == [k \in DOMAIN proxyTimeTick \cup {in.SourceID} |->
                    IF k \in DOMAIN proxyTimeTick THEN proxyTimeTick[k] ELSE Nil]
        reason == IF EarlyReturn(in) = "unrecognized" THEN "" ELSE EarlyReturn(in)
        ptt == [known EXCEPT ![in.SourceID] =
                  IF @ = Nil THEN newChanTsMsg(in, 1) ELSE newChanTsMsg(in, @.cnt + 1)]
    IN  /\ Alive /\ LockFree
        /\ window' = IF "window" \in track THEN WindowClosed ELSE window
        /\ IF reason # ""
           THEN /\ lastOp' = Log(Returned("updateTimeTick", reason))
                /\ UNCHANGED tickVars
           ELSE /\ proxyTimeTick' = sendToChannel(ptt).tbl
                /\ ChanSend(sendToChannel(ptt).snap)
                /\ lastOp' = Log(Reached("updateTimeTick", ptt))
        /\ UNCHANGED <<ddlVars, watchVars, ctxDone, track, closed, thr, iter>>

updateTimeTick(in) ==
    /\ Alive /\ LockFree
    /\ window' = IF "window" \in track THEN WindowClosed ELSE window
    /\ IF EarlyReturn(in) # ""
       THEN /\ lastOp' = Log(Returned("updateTimeTick", EarlyReturn(in)))
            /\ UNCHANGED tickVars
       ELSE /\ proxyTimeTick' = sendToChannel(Install(in)).tbl
            /\ ChanSend(sendToChannel(Install(in)).snap)
            /\ lastOp' = Log(Reached("updateTimeTick", Install(in)))
    /\ UNCHANGED <<ddlVars, watchVars, ctxDone, track, closed, thr, iter>>

\* what addProxy(id) finds under id: no entry, a nil entry or a report
Found(id) ==
    IF id \notin DOMAIN proxyTimeTick THEN "new"
    ELSE IF proxyTimeTick[id] = Nil THEN "idle"
    ELSE "reported"

\* addProxy that inserts only when the id has no entry
addProxy_KeepExisting(id) ==
    /\ Alive /\ LockFree
    /\ proxyTimeTick' = [k \in DOMAIN proxyTimeTick \cup {id} |->
                            IF k \in DOMAIN proxyTimeTick THEN proxyTimeTick[k] ELSE Nil]
    /\ lastOp' = Log(Returned("addProxy", Found(id)))
    /\ UNCHANGED <<sendChan, sending, rounds, ddlVars, watchVars, ctxDone, window, track, closed, thr, iter>>

addProxy(id) ==
    /\ Alive /\ LockFree
    /\ proxyTimeTick' = [k \in DOMAIN proxyTimeTick \cup {id} |->
                            IF k = id THEN Nil ELSE proxyTimeTick[k]]
    /\ lastOp' = Log(Returned("addProxy", Found(id)))
    /\ UNCHANGED <<sendChan, sending, rounds, ddlVars, watchVars, ctxDone, window, track, closed, thr, iter>>

\* delProxy without its call of sendToChannel
delProxy_NoDrain(id) ==
    /\ Alive /\ LockFree
    /\ proxyTimeTick' = [k \in DOMAIN proxyTimeTick \ {id} |-> proxyTimeTick[k]]
    /\ lastOp' = Log(Returned("delProxy", "ok"))
    /\ UNCHANGED <<sendChan, sending, rounds, ddlVars, watchVars, ctxDone, histVars>>

\* delProxy calling sendToChannel whether or not the id was there
delProxy_AlwaysDrain(id) ==
    LET rest == [k \in DOMAIN proxyTimeTick \ {id} |-> proxyTimeTick[k]]
    IN  /\ Alive /\ LockFree
        /\ proxyTimeTick' = sendToChannel(rest).tbl
        /\ ChanSend(sendToChannel(rest).snap)
        /\ lastOp' = Log(IF id \in DOMAIN proxyTimeTick
                         THEN Reached("delProxy", rest)
                         ELSE [Reached("delProxy", rest) EXCEPT !.why = "absent"])
        /\ UNCHANGED <<ddlVars, watchVars, ctxDone, histVars>>

\* delProxy calling sendToChannel before the delete instead of after it
delProxy_DrainFirst(id) ==
    /\ Alive /\ LockFree
    /\ IF id \in DOMAIN proxyTimeTick
       THEN LET tbl == sendToChannel(proxyTimeTick).tbl
            IN  /\ proxyTimeTick' = [k \in DOMAIN tbl \ {id} |-> tbl[k]]
                /\ ChanSend(sendToChannel(proxyTimeTick).snap)
                /\ lastOp' = Log(Reached("delProxy", proxyTimeTick))
       ELSE /\ lastOp' = Log(Returned("delProxy", "absent"))
            /\ UNCHANGED tickVars
    /\ UNCHANGED <<ddlVars, watchVars, ctxDone, histVars>>

\* delProxy that also takes the proxy out of the snapshots still in sendChan
delProxy_Purge(id) ==
    /\ Alive /\ LockFree
    /\ IF id \in DOMAIN proxyTimeTick
       THEN LET rest == [k \in DOMAIN proxyTimeTick \ {id} |-> proxyTimeTick[k]]
                kept == [i \in 1..Len(sendChan) |->
                           [k \in DOMAIN sendChan[i] \ {id} |-> sendChan[i][k]]]
            IN  /\ proxyTimeTick' = sendToChannel(rest).tbl
                /\ sendChan' = kept \o sendToChannel(rest).snap
                /\ rounds' = rounds + Len(sendToChannel(rest).snap)
                /\ UNCHANGED sending
                /\ lastOp' = Log(Reached("delProxy", rest))
       ELSE /\ lastOp' = Log(Returned("delProxy", "absent"))
            /\ UNCHANGED tickVars
    /\ UNCHANGED <<ddlVars, watchVars, ctxDone, histVars>>

delProxy(id) ==
    /\ Alive /\ LockFree
    /\ IF id \in DOMAIN proxyTimeTick
       THEN LET rest == [k \in DOMAIN proxyTimeTick \ {id} |-> proxyTimeTick[k]]
            IN  /\ proxyTimeTick' = sendToChannel(rest).tbl
                /\ ChanSend(sendToChannel(rest).snap)
                /\ lastOp' = Log(Reached("delProxy", rest))
       ELSE /\ lastOp' = Log(Returned("delProxy", "absent"))
            /\ UNCHANGED tickVars
    /\ UNCHANGED <<ddlVars, watchVars, ctxDone, histVars>>

\* whether clearProxy finds every listed id in the table
Listed(ids) == IF ids \subseteq DOMAIN proxyTimeTick THEN "listed" ELSE "new"

\* clearProxy assigning nil only to the ids the table already has
clearProxy_OnlyRegistered(ids) ==
    /\ Alive /\ LockFree
    /\ proxyTimeTick' = [k \in DOMAIN proxyTimeTick |->
                            IF k \in ids THEN Nil ELSE proxyTimeTick[k]]
    /\ lastOp' = Log(Returned("clearProxy", Listed(ids)))
    /\ UNCHANGED <<sendChan, sending, rounds, ddlVars, watchVars, ctxDone, window, track, closed, thr, iter>>

\* clearProxy(sess): every listed id gets a nil entry, registered or not
clearProxy(ids) ==
    /\ Alive /\ LockFree
    /\ proxyTimeTick' = [k \in DOMAIN proxyTimeTick \cup ids |->
                            IF k \in ids THEN Nil ELSE proxyTimeTick[k]]
    /\ lastOp' = Log(Returned("clearProxy", Listed(ids)))
    /\ UNCHANGED <<sendChan, sending, rounds, ddlVars, watchVars, ctxDone, window, track, closed, thr, iter>>

----------------------------------------------------------------------------
(* startWatch *)

Cancel ==
    /\ Alive /\ ~ctxDone
    /\ ctxDone' = TRUE
    /\ lastOp' = Log([op |-> "cancel"])
    /\ UNCHANGED <<tickVars, ddlVars, watchVars, histVars>>

\* case <-t.ctx.Done(): return; also the return on a closed, empty sendChan
watchDone ==
    /\ pc = "select" /\ (ctxDone \/ (closed /\ sendChan = <<>>))
    /\ pc' = "stopped"
    /\ lastOp' = Log([op |-> "watchDone"])
    /\ UNCHANGED <<tickVars, ddlVars, ctxDone, proxyTimetick, workers, stream,
                   histVars>>

\* startWatch without its `if len(local.chanTs) == 0 { continue }`, reducing
\* the snapshot over every channel instead
watchRecv_NoSkip ==
    /\ pc = "select" /\ sendChan # <<>>
    /\ sendChan' = Tail(sendChan) \o sending
    /\ sending' = <<>>
    /\ proxyTimetick' = Head(sendChan)
    /\ IF sourceID \notin DOMAIN Head(sendChan)
       THEN pc' = "panic" /\ UNCHANGED workers
       ELSE pc' = "send" /\ workers' = DOMAIN Head(sendChan)[sourceID].chanTs
    /\ lastOp' = Log([op |-> "watchRecv"])
    /\ iter' = NoIter
    /\ UNCHANGED <<proxyTimeTick, rounds, ddlVars, ctxDone, stream,
                   window, env, track, closed, thr>>

\* startWatch ranging over the channels of every report of the snapshot
watchRecv_EveryChannel ==
    /\ pc = "select" /\ sendChan # <<>>
    /\ sendChan' = Tail(sendChan) \o sending
    /\ sending' = <<>>
    /\ proxyTimetick' = Head(sendChan)
    /\ IF sourceID \notin DOMAIN Head(sendChan)
       THEN pc' = "panic" /\ UNCHANGED workers
       ELSE IF DOMAIN Head(sendChan)[sourceID].chanTs = {}
       THEN UNCHANGED <<pc, workers>>
       ELSE /\ pc' = "send"
            /\ workers' = UNION {DOMAIN Head(sendChan)[p].chanTs : p \in DOMAIN Head(sendChan)}
    /\ lastOp' = Log([op |-> "watchRecv"])
    /\ iter' = NoIter
    /\ UNCHANGED <<proxyTimeTick, rounds, ddlVars, ctxDone, stream,
                   window, env, track, closed, thr>>

\* case proxyTimetick, ok := <-t.sendChan, up to the start of the workers.
\* A caller blocked in the send hands its snapshot over and returns.
\* a receive that takes the snapshot sent last instead of the oldest
watchRecv_TakeLast ==
    /\ pc = "select" /\ sendChan # <<>>
    /\ sendChan' = SubSeq(sendChan, 1, Len(sendChan) - 1) \o sending
    /\ sending' = <<>>
    /\ proxyTimetick' = sendChan[Len(sendChan)]
    /\ IF sourceID \notin DOMAIN sendChan[Len(sendChan)]
       THEN \* local is nil: len(local.chanTs) dereferences it
            pc' = "panic" /\ UNCHANGED workers
       ELSE IF DOMAIN sendChan[Len(sendChan)][sourceID].chanTs = {}
       THEN UNCHANGED <<pc, workers>>
       ELSE pc' = "send" /\ workers' = DOMAIN sendChan[Len(sendChan)][sourceID].chanTs
    /\ lastOp' = Log([op |-> "watchRecv"])
    /\ iter' = NoIter
    /\ UNCHANGED <<proxyTimeTick, rounds, ddlVars, ctxDone, stream,
                   window, env, track, closed, thr>>

watchRecv ==
    /\ pc = "select" /\ sendChan # <<>>
    /\ sendChan' = Tail(sendChan) \o sending
    /\ sending' = <<>>
    /\ proxyTimetick' = Head(sendChan)
    /\ IF sourceID \notin DOMAIN Head(sendChan)
       THEN \* local is nil: len(local.chanTs) dereferences it
            pc' = "panic" /\ UNCHANGED workers
       ELSE IF DOMAIN Head(sendChan)[sourceID].chanTs = {}
       THEN UNCHANGED <<pc, workers>>
       ELSE pc' = "send" /\ workers' = DOMAIN Head(sendChan)[sourceID].chanTs
    /\ lastOp' = Log([op |-> "watchRecv"])
    /\ iter' = NoIter
    /\ UNCHANGED <<proxyTimeTick, rounds, ddlVars, ctxDone, stream,
                   window, env, track, closed, thr>>

\* the reduction with its comparison flipped (currTs > mints)
MinTs_Flipped(ptt, chanName) ==
    SetMax({ptt[sourceID].chanTs[chanName]}
           \cup {getTimetick(ptt[id], chanName) : id \in DOMAIN ptt})

\* the reduction of one worker goroutine
MinTs(ptt, chanName) ==
    SetMin({ptt[sourceID].chanTs[chanName]}
           \cup {getTimetick(ptt[id], chanName) : id \in DOMAIN ptt})

\* sendTimeTickToChannel stamping the pack with the zero BaseMsg
sendTimeTickToChannel_ZeroBase(chanNames, ts) ==
    [chanNames |-> chanNames,
     msgPack |-> [Msgs |-> <<[BaseMsg |-> [BeginTimestamp |-> 0, EndTimestamp |-> 0,
                                          HashValues |-> <<>>],
                              Base |-> [MsgType |-> "TimeTick", MsgID |-> 0,
                                        Timestamp |-> ts, SourceID |-> sourceID]]>>]]

\* sendTimeTickToChannel(chanNames, ts): the pack it builds and the channels
\* it hands to dmlChannels.broadcast
sendTimeTickToChannel(chanNames, ts) ==
    [chanNames |-> chanNames,
     msgPack |-> [Msgs |-> <<[BaseMsg |-> [BeginTimestamp |-> ts, EndTimestamp |-> ts,
                                          HashValues |-> <<0>>],
                              Base |-> [MsgType |-> "TimeTick", MsgID |-> 0,
                                        Timestamp |-> ts, SourceID |-> sourceID]]>>]]

\* a worker whose failed broadcast ends the iteration at once
worker_AbortOnError(chanName, ok) ==
    /\ pc = "send" /\ chanName \in workers
    /\ workers' = IF ok THEN workers \ {chanName} ELSE {}
    /\ stream' = [stream EXCEPT ![chanName] = Append(@, MinTs(proxyTimetick, chanName))]
    /\ window' = IF window.open
                 THEN [window EXCEPT !.n[chanName] = @ + 1]
                 ELSE window
    /\ lastOp' = Log([op |-> "broadcast", chan |-> chanName,
                      ts |-> MinTs(proxyTimetick, chanName), ok |-> ok,
                      call |-> sendTimeTickToChannel(<<chanName>>,
                                                     MinTs(proxyTimetick, chanName))])
    /\ iter' = IF "iter" \in track
               THEN [sent |-> [iter.sent EXCEPT ![chanName] = @ + 1],
                     failed |-> IF ok THEN iter.failed ELSE iter.failed \cup {chanName}]
               ELSE iter
    /\ UNCHANGED <<tickVars, ddlVars, ctxDone, pc, proxyTimetick, env, track, closed, thr>>

\* one worker goroutine: reduce, then sendTimeTickToChannel, which may fail
worker(chanName, ok) ==
    /\ pc = "send" /\ chanName \in workers
    /\ workers' = workers \ {chanName}
    /\ stream' = [stream EXCEPT ![chanName] = Append(@, MinTs(proxyTimetick, chanName))]
    /\ window' = IF window.open
                 THEN [window EXCEPT !.n[chanName] = @ + 1]
                 ELSE window
    /\ lastOp' = Log([op |-> "broadcast", chan |-> chanName,
                      ts |-> MinTs(proxyTimetick, chanName), ok |-> ok,
                      call |-> sendTimeTickToChannel(<<chanName>>,
                                                     MinTs(proxyTimetick, chanName))])
    /\ iter' = IF "iter" \in track
               THEN [sent |-> [iter.sent EXCEPT ![chanName] = @ + 1],
                     failed |-> IF ok THEN iter.failed ELSE iter.failed \cup {chanName}]
               ELSE iter
    /\ UNCHANGED <<tickVars, ddlVars, ctxDone, pc, proxyTimetick, env, track, closed, thr>>

\* the loop going back to the select without wg.Wait()
watchJoin_NoWait ==
    /\ pc = "send"
    /\ pc' = "select"
    /\ lastOp' = Log([op |-> "watchJoin"])
    /\ UNCHANGED <<tickVars, ddlVars, ctxDone, proxyTimetick, workers, stream,
                   histVars>>

\* wg.Wait() returns and the loop goes back to the select
watchJoin ==
    /\ pc = "send" /\ workers = {}
    /\ pc' = "select"
    /\ lastOp' = Log([op |-> "watchJoin"])
    /\ UNCHANGED <<tickVars, ddlVars, ctxDone, proxyTimetick, workers, stream,
                   histVars>>

----------------------------------------------------------------------------
(* the state after newTimeTickSync, with startWatch started *)

NoEnv ==
    [last |-> [p \in 1..(MaxProxy + 1) |->
                 [chan |-> [c \in Channels |-> 0], def |-> 0,
                  eff |-> [c \in Channels |-> 0]]],
     effMono |-> TRUE, lateJoin |-> FALSE, warns |-> <<>>, since |-> 0, ticks |-> 0]

Init0 ==
    /\ proxyTimeTick = <<>>
    /\ sendChan = <<>>
    /\ sending = <<>>
    /\ ddlMinTs = MaxUint64
    /\ ddlTsSet = {}
    /\ ctxDone = FALSE
    /\ pc = "select"
    /\ proxyTimetick = <<>>
    /\ workers = {}
    /\ stream = [c \in FanChannels |-> <<>>]
    /\ rounds = 0
    /\ window = WindowClosed
    /\ lastOp = [op |-> "newTimeTickSync"]
    /\ env = NoEnv
    /\ closed = FALSE
    /\ thr = NoThreads
    /\ iter = NoIter

Init == Init0 /\ track = {"lastOp"}

----------------------------------------------------------------------------
(* the callers *)

\* sequences over S of length at most n
SeqsUpTo(S, n) == UNION {[1..k -> S] : k \in 0..n}

\* ChannelTimeTickMsg values, well-formed or not, from any id
Msgs ==
    [SourceID : 1..(MaxProxy + 1),
     ChannelNames : SeqsUpTo(Channels, MaxChan),
     Timestamps : SeqsUpTo(Timestamps, MaxChan),
     DefaultTimestamp : Timestamps]

\* the well-formed reports of registered ids with timestamps from ts
Reports(ts) ==
    {in \in Msgs :
        /\ in.SourceID \in ProxyIDs
        /\ Len(in.Timestamps) = Len(in.ChannelNames)
        /\ in.DefaultTimestamp \in ts
        /\ \A i \in 1..Len(in.Timestamps) : in.Timestamps[i] \in ts}

\* the counters of the model stay within their bounds
CntBelow(id, n) ==
    id \in DOMAIN proxyTimeTick /\ proxyTimeTick[id] # Nil
        => proxyTimeTick[id].cnt < n

Tick(in) ==
    /\ rounds < MaxRounds /\ CntBelow(in.SourceID, MaxCnt)
    /\ updateTimeTick(in)
    /\ UNCHANGED env

Join(id) == addProxy(id) /\ UNCHANGED env

Leave(id) == rounds < MaxRounds /\ delProxy(id)

Clear(ids) == clearProxy(ids) /\ UNCHANGED env

\* the steps of startWatch and of its workers
Watch ==
    \/ watchDone
    \/ watchRecv
    \/ \E c \in Channels, ok \in BOOLEAN : worker(c, ok)
    \/ watchJoin

\* the tick table under every kind of report, with no DDL in progress
Next ==
    \/ \E in \in Msgs : Tick(in)
    \/ \E id \in ProxyIDs : Join(id)
    \/ \E id \in ProxyIDs : Leave(id)
    \/ \E ids \in SUBSET ProxyIDs : Clear(ids)
    \/ Cancel
    \/ Watch

Spec == Init /\ [][Next]_vars

----------------------------------------------------------------------------
(* proxies whose chanTs and defaultTs never go down *)

\* the timestamp the report carries for chanName
EffOf(in, chanName) ==
    IF chanName \in DOMAIN ChanTsOf(in) THEN ChanTsOf(in)[chanName]
    ELSE in.DefaultTimestamp

\* each of chanTs[c] and defaultTs is at least what the proxy sent before
NonDecreasing(in) ==
    /\ in.DefaultTimestamp >= env.last[in.SourceID].def
    /\ \A c \in DOMAIN ChanTsOf(in) : ChanTsOf(in)[c] >= env.last[in.SourceID].chan[c]

Observe(in) ==
    [env EXCEPT
       !.last[in.SourceID] =
           [chan |-> [c \in Channels |->
                        IF c \in DOMAIN ChanTsOf(in) THEN ChanTsOf(in)[c] ELSE @.chan[c]],
            def |-> in.DefaultTimestamp,
            eff |-> [c \in Channels |-> EffOf(in, c)]],
       !.effMono = @ /\ \A c \in Channels : EffOf(in, c) >= env.last[in.SourceID].eff[c]]

\* ids that get an entry they did not have, after a snapshot was drained
Newcomers(ids) ==
    [env EXCEPT !.lateJoin = @ \/ (rounds > 0 /\ ~(ids \subseteq DOMAIN proxyTimeTick))]

MonoTick(in) ==
    /\ rounds < MaxRoundsMono /\ CntBelow(in.SourceID, MaxCntMono)
    /\ NonDecreasing(in)
    /\ updateTimeTick(in)
    /\ env' = Observe(in)

MonoJoin(id) == addProxy(id) /\ env' = Newcomers({id})

MonoLeave(id) == rounds < MaxRoundsMono /\ delProxy(id)

MonoClear(ids) == clearProxy(ids) /\ env' = Newcomers(ids)

NextMono ==
    \/ \E in \in Reports(1..MaxTs) : MonoTick(in)
    \/ \E id \in ProxyIDs : MonoJoin(id)
    \/ \E id \in ProxyIDs : MonoLeave(id)
    \/ \E ids \in SUBSET ProxyIDs : MonoClear(ids)
    \/ watchRecv
    \/ \E c \in Channels : worker(c, TRUE)
    \/ watchJoin

InitMono == Init0 /\ track = {}

SpecMono == InitMono /\ [][NextMono]_vars

----------------------------------------------------------------------------
(* reports admitted while DDL timestamps come and go *)

DdlTick(in) ==
    /\ rounds < MaxRounds /\ CntBelow(in.SourceID, MaxCnt)
    /\ updateTimeTick(in)
    /\ UNCHANGED env

NextDdl ==
    \/ \E in \in Reports(1..MaxTs) : DdlTick(in)
    \/ \E id \in ProxyIDs : Join(id)
    \/ \E id \in ProxyIDs : Leave(id)
    \/ \E ts \in Timestamps : addDdlTimeTick(ts)
    \/ \E ts \in Timestamps : removeDdlTimeTick(ts)
    \/ watchRecv
    \/ \E c \in Channels : worker(c, TRUE)
    \/ watchJoin

InitDdl == Init0 /\ track = {"ddlAt", "lastOp"}

SpecDdl == InitDdl /\ [][NextDdl]_vars

----------------------------------------------------------------------------
(* heartbeats between an addDdlTimeTick and the next updateTimeTick *)

WinTick(in) ==
    /\ rounds < MaxRoundsWin /\ CntBelow(in.SourceID, MaxCntMono)
    /\ updateTimeTick(in)
    /\ UNCHANGED env

WinLeave(id) == rounds < MaxRoundsWin /\ delProxy(id)

NextWin ==
    \/ \E in \in Reports({MaxTs}) : WinTick(in)
    \/ \E id \in ProxyIDs : Join(id)
    \/ \E id \in ProxyIDs : WinLeave(id)
    \/ \E ts \in Timestamps : addDdlTimeTick(ts)
    \/ \E ts \in Timestamps : removeDdlTimeTick(ts)
    \/ watchRecv
    \/ \E c \in Channels : worker(c, TRUE)
    \/ watchJoin

InitWin == Init0 /\ track = {"window"}

SpecWin == InitWin /\ [][NextWin]_vars

----------------------------------------------------------------------------
(* the DDL barrier on its own *)

\* the coordinator's reports that carry a defaultTs only
BarrierReports ==
    {in \in Reports(1..MaxTs) : in.SourceID = sourceID /\ Len(in.ChannelNames) = 0}

NextBarrier ==
    \/ \E ts \in Timestamps : addDdlTimeTick(ts)
    \/ \E ts \in Timestamps : removeDdlTimeTick(ts)
    \/ readDdlMinTimeTick
    \/ Join(sourceID)
    \/ \E in \in BarrierReports : DdlTick(in)
    \/ watchRecv

InitBarrier == Init0 /\ track = {"lastOp", "ddlLog"}

SpecBarrier == InitBarrier /\ [][NextBarrier]_vars

----------------------------------------------------------------------------
(* many rounds of the coordinator alone, startWatch fast, slow or stopped *)

\* the coordinator's report with every channel at the top timestamp
QueueReports ==
    {in \in Reports({MaxTs}) :
        in.SourceID = sourceID /\ Len(in.ChannelNames) = MaxChan}

QueueTick(in) ==
    /\ rounds < MaxRoundsQ
    /\ updateTimeTick(in)
    /\ UNCHANGED env

NextQueue ==
    \/ \E in \in QueueReports : QueueTick(in)
    \/ Join(sourceID)
    \/ Cancel
    \/ Watch

SpecQueue == Init /\ [][NextQueue]_vars

----------------------------------------------------------------------------
(* the coordinator's accepted reports, one round after another *)

\* env.last[sourceID].def keeps the defaultTs of the coordinator report that
\* updateTimeTick accepted last, -1 before the first
Accepting(in) ==
    IF in.SourceID = sourceID /\ EarlyReturn(in) = ""
    THEN [env EXCEPT !.last[sourceID].def = in.DefaultTimestamp]
    ELSE env

CoordTick(in) ==
    /\ rounds < MaxRoundsMono /\ CntBelow(in.SourceID, MaxCntMono)
    /\ updateTimeTick(in)
    /\ env' = Accepting(in)

CoordLeave(id) == rounds < MaxRoundsMono /\ delProxy(id)

NextCoord ==
    \/ \E in \in Reports(1..MaxTs) : CoordTick(in)
    \/ \E id \in ProxyIDs : Join(id)
    \/ \E id \in ProxyIDs : CoordLeave(id)
    \/ \E ids \in SUBSET ProxyIDs : Clear(ids)
    \/ watchRecv
    \/ \E c \in Channels : worker(c, TRUE)
    \/ watchJoin

InitCoord ==
    /\ proxyTimeTick = <<>> /\ sendChan = <<>> /\ sending = <<>>
    /\ ddlMinTs = MaxUint64 /\ ddlTsSet = {}
    /\ ctxDone = FALSE /\ pc = "select" /\ proxyTimetick = <<>> /\ workers = {}
    /\ stream = [c \in FanChannels |-> <<>>]
    /\ closed = FALSE /\ thr = NoThreads /\ iter = NoIter
    /\ rounds = 0 /\ window = WindowClosed
    /\ lastOp = [op |-> "newTimeTickSync"]
    /\ env = [NoEnv EXCEPT !.last[sourceID].def = -1]
    /\ track = {"lastOp"}

SpecCoord == InitCoord /\ [][NextCoord]_vars

----------------------------------------------------------------------------
(* snapshots over two channels, broadcasts that may fail *)

\* well-formed reports that name no channel, one, or both, all at one timestamp
FanReports ==
    {in \in [SourceID : ProxyIDs,
             ChannelNames : {<<>>} \cup {<<c>> : c \in FanChannels}
                               \cup {<<c, d>> : c, d \in FanChannels},
             Timestamps : SeqsUpTo(1..MaxTs, MaxChan + 1),
             DefaultTimestamp : 1..MaxTs] :
        /\ Len(in.Timestamps) = Len(in.ChannelNames)
        /\ \A i \in 1..Len(in.Timestamps) : in.Timestamps[i] = in.DefaultTimestamp
        /\ \A i, j \in 1..Len(in.ChannelNames) : i < j => in.ChannelNames[i] < in.ChannelNames[j]}

FanTick(in) ==
    /\ rounds < MaxRoundsMono /\ CntBelow(in.SourceID, MaxCntMono)
    /\ updateTimeTick(in)
    /\ UNCHANGED env

NextFan ==
    \/ \E in \in FanReports : FanTick(in)
    \/ \E id \in ProxyIDs : Join(id)
    \/ watchRecv
    \/ \E c \in FanChannels, ok \in BOOLEAN : worker(c, ok)
    \/ watchJoin

InitFan == Init0 /\ track = {"lastOp", "iter"}

SpecFan == InitFan /\ [][NextFan]_vars

----------------------------------------------------------------------------
(* every caller at work while snapshots wait in sendChan *)

\* the reports of a long round: one channel, its timestamp the defaultTs
WarnReports ==
    {in \in Reports(1..MaxTs) :
        in.ChannelNames = <<1>> /\ in.Timestamps = <<in.DefaultTimestamp>>}

NextFrozen ==
    \/ \E in \in WarnReports : FanTick(in)
    \/ \E id \in ProxyIDs : Join(id)
    \/ \E id \in ProxyIDs : CoordLeave(id)
    \/ \E ids \in SUBSET ProxyIDs : Clear(ids)
    \/ \E ts \in 1..MaxTs : addDdlTimeTick(ts)
    \/ \E ts \in 1..MaxTs : removeDdlTimeTick(ts)
    \/ watchRecv
    \/ \E c \in Channels : worker(c, TRUE)
    \/ watchJoin

SpecFrozen == Init /\ [][NextFrozen]_vars

----------------------------------------------------------------------------
(* long rounds: a proxy reports again and again while another stays idle *)

\* the history of a long round starts again
NoWarns(n) == [env EXCEPT !.warns = <<>>, !.since = n, !.ticks = 0]

\* env.ticks counts the reports accepted since addProxy or delProxy was last
\* called or a round was drained, env.warns keeps the "proxy idle" warnings
\* of those calls: for each the maxCnt it reports and its proxy list
Warned ==
    IF rounds' # rounds THEN NoWarns(rounds')
    ELSE IF lastOp'.why # "ok" THEN env
    ELSE IF lastOp'.warn
    THEN [env EXCEPT !.ticks = @ + 1,
                     !.warns = Append(@, [cnt |-> MaxCntOf(proxyTimeTick'),
                                          idle |-> IdleProxyList(proxyTimeTick')])]
    ELSE [env EXCEPT !.ticks = @ + 1]

WarnTick(in) ==
    /\ rounds < MaxRounds /\ CntBelow(in.SourceID, MaxCntWarn)
    /\ updateTimeTick(in)
    /\ env' = Warned

WarnJoin(id) ==
    /\ addProxy(id)
    /\ env' = NoWarns(rounds)

WarnLeave(id) ==
    /\ rounds < MaxRounds
    /\ delProxy(id)
    /\ env' = NoWarns(rounds')

NextWarn ==
    \/ \E in \in WarnReports : WarnTick(in)
    \/ \E id \in ProxyIDs : WarnJoin(id)
    \/ \E id \in ProxyIDs : WarnLeave(id)

InitWarn == Init0 /\ track = {"lastOp"}

SpecWarn == InitWarn /\ [][NextWarn]_vars

----------------------------------------------------------------------------
(* the methods of timetickSync called by concurrent goroutines, one step per
   lock operation and per access to the shared fields *)

\* what the steps of the callers leave alone
seqVars == <<sending, ctxDone, pc, proxyTimetick, workers, stream, window,
             lastOp, env, track, closed, iter>>

\* m[k] = v of a Go map
Put(m, k, v) == [x \in DOMAIN m \cup {k} |-> IF x = k THEN v ELSE m[x]]

\* goroutine t moves to label with locals loc
Goto(t, label, loc) == [thr EXCEPT !.pc[t] = label, !.loc[t] = loc]

\* goroutine t returns: the deferred t.lock.Unlock() is the step "unlock"
Return(t) == Goto(t, "unlock", thr.loc[t])

\* the pcs at which a goroutine is between t.lock.Lock() and its Unlock()
Locked ==
    {"ut_check", "ut_ddlLock", "ut_ddlRead", "ut_compare", "stc_scan",
     "stc_move", "stc_send", "ap_set", "dp_del", "cp_set", "gp_len", "unlock"}

\* the step after each Lock()
Body(label) ==
    CASE label = "ut_lock" -> "ut_check"
      [] label = "ap_lock" -> "ap_set"
      [] label = "dp_lock" -> "dp_del"
      [] label = "cp_lock" -> "cp_set"
      [] label = "gp_lock" -> "gp_len"
      [] label = "ut_ddlLock" -> "ut_ddlRead"
      [] label = "ad_lock" -> "ad_body"
      [] label = "rd_lock" -> "rd_body"

\* a goroutine enters a method and reaches its first lock operation
enter(t, label, arg) ==
    /\ thr.pc[t] = "idle"
    /\ thr' = Goto(t, label, [NoLoc EXCEPT !.arg = arg])
    /\ UNCHANGED <<tickVars, ddlVars, seqVars>>

\* a Lock() that takes t.lock whether or not another goroutine holds it
tickLock_NoWait(t) ==
    /\ thr.pc[t] \in {"ut_lock", "ap_lock", "dp_lock", "cp_lock", "gp_lock"}
    /\ thr' = [thr EXCEPT !.lock = t, !.pc[t] = Body(thr.pc[t])]
    /\ UNCHANGED <<tickVars, ddlVars, seqVars>>

\* t.lock.Lock()
tickLock(t) ==
    /\ thr.pc[t] \in {"ut_lock", "ap_lock", "dp_lock", "cp_lock", "gp_lock"}
    /\ thr.lock = 0
    /\ thr' = [thr EXCEPT !.lock = t, !.pc[t] = Body(thr.pc[t])]
    /\ UNCHANGED <<tickVars, ddlVars, seqVars>>

\* a return that leaves t.lock locked
tickUnlock_Forget(t) ==
    /\ thr.pc[t] = "unlock"
    /\ thr' = [thr EXCEPT !.pc[t] = "idle", !.loc[t] = NoLoc]
    /\ UNCHANGED <<tickVars, ddlVars, seqVars>>

\* the deferred t.lock.Unlock()
tickUnlock(t) ==
    /\ thr.pc[t] = "unlock"
    /\ thr' = [thr EXCEPT !.lock = 0, !.pc[t] = "idle", !.loc[t] = NoLoc]
    /\ UNCHANGED <<tickVars, ddlVars, seqVars>>

\* t.ddlLock.Lock(), in getDdlMinTimeTick, addDdlTimeTick, removeDdlTimeTick
ddlLock(t) ==
    /\ thr.pc[t] \in {"ut_ddlLock", "ad_lock", "rd_lock"}
    /\ thr.ddl = 0
    /\ thr' = [thr EXCEPT !.ddl = t, !.pc[t] = Body(thr.pc[t])]
    /\ UNCHANGED <<tickVars, ddlVars, seqVars>>

\* updateTimeTick, lines 217-227: the checks of the report and the lookup
ut_check(t) ==
    /\ thr.pc[t] = "ut_check"
    /\ LET in == thr.loc[t].arg
       IN  thr' =
             IF Len(in.ChannelNames) = 0 /\ in.DefaultTimestamp = 0 THEN Return(t)
             ELSE IF Len(in.Timestamps) # Len(in.ChannelNames) THEN Return(t)
             ELSE IF in.SourceID \notin DOMAIN proxyTimeTick THEN Return(t)
             ELSE Goto(t, "ut_ddlLock",
                       [thr.loc[t] EXCEPT !.prev = proxyTimeTick[in.SourceID]])
    /\ UNCHANGED <<tickVars, ddlVars, seqVars>>

\* getDdlMinTimeTick without its deferred Unlock()
ut_ddlRead_NoUnlock(t) ==
    /\ thr.pc[t] = "ut_ddlRead"
    /\ thr' = Goto(t, "ut_compare", [thr.loc[t] EXCEPT !.ddlMinTs = ddlMinTs])
    /\ UNCHANGED <<tickVars, ddlVars, seqVars>>

\* getDdlMinTimeTick called by updateTimeTick: read t.ddlMinTs, Unlock()
ut_ddlRead(t) ==
    /\ thr.pc[t] = "ut_ddlRead"
    /\ thr' = [Goto(t, "ut_compare", [thr.loc[t] EXCEPT !.ddlMinTs = ddlMinTs])
                 EXCEPT !.ddl = 0]
    /\ UNCHANGED <<tickVars, ddlVars, seqVars>>

\* updateTimeTick, lines 231-253: the barrier check, the coordinator check
\* and the install, on the prev and ddlMinTs read before
ut_compare(t) ==
    /\ thr.pc[t] = "ut_compare"
    /\ LET in == thr.loc[t].arg
           prev == thr.loc[t].prev
       IN  IF \/ in.DefaultTimestamp > thr.loc[t].ddlMinTs
              \/ /\ in.SourceID = sourceID
                 /\ prev # Nil
                 /\ in.DefaultTimestamp <= prev.defaultTs
           THEN thr' = Return(t) /\ UNCHANGED proxyTimeTick
           ELSE /\ proxyTimeTick' =
                     Put(proxyTimeTick, in.SourceID,
                         IF prev = Nil THEN newChanTsMsg(in, 1)
                         ELSE newChanTsMsg(in, prev.cnt + 1))
                /\ thr' = Goto(t, "stc_scan", thr.loc[t])
    /\ UNCHANGED <<sendChan, sending, rounds, ddlVars, seqVars>>

\* sendToChannel, lines 132-156: the empty table, the idle proxies
stc_scan(t) ==
    /\ thr.pc[t] = "stc_scan"
    /\ thr' = IF DOMAIN proxyTimeTick = {} \/ IdleProxyList(proxyTimeTick) # {}
              THEN Return(t)
              ELSE Goto(t, "stc_move",
                        [thr.loc[t] EXCEPT !.ptt = <<>>, !.seen = proxyTimeTick])
    /\ UNCHANGED <<tickVars, ddlVars, seqVars>>

\* sendToChannel, lines 160-163: one iteration of the loop that moves an
\* entry into ptt and sets it to nil, in the order the map yields its keys
stc_move(t) ==
    /\ thr.pc[t] = "stc_move"
    /\ \E k \in DOMAIN proxyTimeTick \ DOMAIN thr.loc[t].ptt :
         /\ proxyTimeTick' = [proxyTimeTick EXCEPT ![k] = Nil]
         /\ thr' = Goto(t,
                IF DOMAIN proxyTimeTick \subseteq DOMAIN thr.loc[t].ptt \cup {k}
                THEN "stc_send" ELSE "stc_move",
                [thr.loc[t] EXCEPT !.ptt = Put(@, k, proxyTimeTick[k])])
    /\ UNCHANGED <<sendChan, sending, rounds, ddlVars, seqVars>>

\* sendToChannel, line 164: t.sendChan <- ptt, which waits while the channel
\* is full
stc_send(t) ==
    /\ thr.pc[t] = "stc_send"
    /\ Len(sendChan) < QueueCap
    /\ sendChan' = Append(sendChan, thr.loc[t].ptt)
    /\ rounds' = rounds + 1
    /\ thr' = Return(t)
    /\ UNCHANGED <<proxyTimeTick, sending, ddlVars, seqVars>>

\* addProxy, line 262
ap_set(t) ==
    /\ thr.pc[t] = "ap_set"
    /\ proxyTimeTick' = Put(proxyTimeTick, thr.loc[t].arg.id, Nil)
    /\ thr' = Return(t)
    /\ UNCHANGED <<sendChan, sending, rounds, ddlVars, seqVars>>

\* delProxy, lines 269-272: delete and sendToChannel if the proxy is there
dp_del(t) ==
    /\ thr.pc[t] = "dp_del"
    /\ LET id == thr.loc[t].arg.id
       IN  IF id \in DOMAIN proxyTimeTick
           THEN /\ proxyTimeTick' =
                     [k \in DOMAIN proxyTimeTick \ {id} |-> proxyTimeTick[k]]
                /\ thr' = Goto(t, "stc_scan", thr.loc[t])
           ELSE thr' = Return(t) /\ UNCHANGED proxyTimeTick
    /\ UNCHANGED <<sendChan, sending, rounds, ddlVars, seqVars>>

\* clearProxy, lines 279-281
cp_set(t) ==
    /\ thr.pc[t] = "cp_set"
    /\ proxyTimeTick' =
          [k \in DOMAIN proxyTimeTick \cup thr.loc[t].arg.ids |->
              IF k \in thr.loc[t].arg.ids THEN Nil ELSE proxyTimeTick[k]]
    /\ thr' = Return(t)
    /\ UNCHANGED <<sendChan, sending, rounds, ddlVars, seqVars>>

\* getProxyNum, line 382: len(t.proxyTimeTick)
gp_len(t) ==
    /\ thr.pc[t] = "gp_len"
    /\ thr' = Return(t)
    /\ UNCHANGED <<tickVars, ddlVars, seqVars>>

\* addDdlTimeTick under t.ddlLock, with its deferred Unlock()
ad_body(t) ==
    /\ thr.pc[t] = "ad_body"
    /\ ddlMinTs' = AddDdl(ddlMinTs, ddlTsSet, thr.loc[t].arg.ts)[1]
    /\ ddlTsSet' = AddDdl(ddlMinTs, ddlTsSet, thr.loc[t].arg.ts)[2]
    /\ thr' = [thr EXCEPT !.ddl = 0, !.pc[t] = "idle", !.loc[t] = NoLoc]
    /\ UNCHANGED <<tickVars, seqVars>>

\* removeDdlTimeTick under t.ddlLock, with its deferred Unlock()
rd_body(t) ==
    /\ thr.pc[t] = "rd_body"
    /\ ddlMinTs' = RemoveDdl(ddlMinTs, ddlTsSet, thr.loc[t].arg.ts)[1]
    /\ ddlTsSet' = RemoveDdl(ddlMinTs, ddlTsSet, thr.loc[t].arg.ts)[2]
    /\ thr' = [thr EXCEPT !.ddl = 0, !.pc[t] = "idle", !.loc[t] = NoLoc]
    /\ UNCHANGED <<tickVars, seqVars>>

\* the reports of the concurrent callers: one channel, its timestamp the
\* defaultTs, the largest there is
LockReports ==
    {in \in Reports({MaxTs}) :
        in.ChannelNames = <<1>> /\ in.Timestamps = <<in.DefaultTimestamp>>}

\* the calls the goroutines make, within the bounds of the model
LockCalls(t) ==
    \/ \E in \in LockReports :
          /\ rounds < MaxRounds /\ CntBelow(in.SourceID, MaxCntMono)
          /\ enter(t, "ut_lock", in)
    \/ \E id \in ProxyIDs : enter(t, "ap_lock", [id |-> id])
    \/ \E id \in ProxyIDs : rounds < MaxRounds /\ enter(t, "dp_lock", [id |-> id])
    \/ \E id \in ProxyIDs : enter(t, "cp_lock", [ids |-> {id}])
    \/ \E ts \in 1..MaxTs :
          Cardinality(ddlTsSet) < MaxDdl /\ enter(t, "ad_lock", [ts |-> ts])
    \/ \E ts \in ddlTsSet : enter(t, "rd_lock", [ts |-> ts])

NextLocks ==
    \E t \in Threads :
        \/ LockCalls(t)
        \/ tickLock(t)
        \/ tickUnlock(t)
        \/ ddlLock(t)
        \/ ut_check(t)
        \/ ut_ddlRead(t)
        \/ ut_compare(t)
        \/ stc_scan(t)
        \/ stc_move(t)
        \/ stc_send(t)
        \/ ap_set(t)
        \/ dp_del(t)
        \/ cp_set(t)
        \/ ad_body(t)
        \/ rd_body(t)

InitLocks == Init0 /\ track = {}

SpecLocks == InitLocks /\ [][NextLocks]_vars

----------------------------------------------------------------------------
(* concurrent callers with startWatch running, round after round *)

\* the calls the goroutines make: the coordinator is the only proxy, so that
\* each of its reports completes a round
RoundCalls(t) ==
    \/ \E in \in QueueReports : rounds < MaxRoundsQ /\ enter(t, "ut_lock", in)
    \/ enter(t, "ap_lock", [id |-> sourceID])
    \/ enter(t, "dp_lock", [id |-> sourceID])
    \/ enter(t, "cp_lock", [ids |-> {sourceID}])
    \/ enter(t, "gp_lock", Nil)
    \/ Cardinality(ddlTsSet) < MaxDdl /\ enter(t, "ad_lock", [ts |-> MaxTs])
    \/ \E ts \in ddlTsSet : enter(t, "rd_lock", [ts |-> ts])

NextRounds ==
    \/ \E t \in Threads :
          \/ RoundCalls(t)
          \/ tickLock(t)
          \/ tickUnlock(t)
          \/ ddlLock(t)
          \/ ut_check(t)
          \/ ut_ddlRead(t)
          \/ ut_compare(t)
          \/ stc_scan(t)
          \/ stc_move(t)
          \/ stc_send(t)
          \/ ap_set(t)
          \/ dp_del(t)
          \/ cp_set(t)
          \/ gp_len(t)
          \/ ad_body(t)
          \/ rd_body(t)
    \/ watchRecv
    \/ \E c \in Channels : worker(c, TRUE)
    \/ watchJoin

SpecRounds == InitLocks /\ [][NextRounds]_vars

----------------------------------------------------------------------------
(* minTimeTick *)

\* the loop of minTimeTick over tt, from the value ret
RECURSIVE minLoop(_, _)
minLoop(ret, tt) ==
    IF tt = <<>> THEN ret
    ELSE minLoop(IF ret = 0 THEN Head(tt)
                 ELSE IF Head(tt) < ret THEN Head(tt) ELSE ret,
                 Tail(tt))

\* minTimeTick(tt...): ret starts as the zero value
minTimeTick(tt) == minLoop(0, tt)

\* a caller holds the arguments tt and, once minTimeTick has returned, its
\* result
callMinTimeTick ==
    /\ env.ret = <<>>
    /\ env' = [env EXCEPT !.ret = <<minTimeTick(env.tt)>>]
    /\ UNCHANGED <<tickVars, ddlVars, watchVars, ctxDone, window, lastOp, track,
                   closed, thr, iter>>

InitMin ==
    /\ proxyTimeTick = <<>> /\ sendChan = <<>> /\ sending = <<>>
    /\ ddlMinTs = MaxUint64 /\ ddlTsSet = {}
    /\ ctxDone = FALSE /\ pc = "select" /\ proxyTimetick = <<>>
    /\ workers = {} /\ stream = [c \in FanChannels |-> <<>>]
    /\ rounds = 0 /\ window = WindowClosed
    /\ lastOp = [op |-> "newTimeTickSync"]
    /\ closed = FALSE /\ thr = NoThreads /\ iter = NoIter /\ track = {}
    /\ env \in [tt : SeqsUpTo(Timestamps, MaxArgs), ret : {<<>>}]

NextMin == callMinTimeTick

SpecMin == InitMin /\ [][NextMin]_vars

----------------------------------------------------------------------------
(* the claims *)

\* a sequence of timestamps that never goes down
NonDecreasingSeq(seq) == \A i \in 1..(Len(seq) - 1) : seq[i] <= seq[i + 1]

\* C1 as stated: with every proxy's chanTs[c] and defaultTs non-decreasing
\* (which SpecMono's callers guarantee), the heartbeats broadcast on every
\* channel are non-decreasing.
C1_Original == \A c \in Channels : NonDecreasingSeq(stream[c])

\* C1, amended: the heartbeats broadcast on every channel are non-decreasing
\* provided, in addition, that the timestamp each proxy's reports carry for
\* the channel (chanTs[c] if present, else defaultTs) never goes down and that
\* no id gets a new entry after the first drain.
C1_Monotonic ==
    (env.effMono /\ ~env.lateJoin) => \A c \in Channels : NonDecreasingSeq(stream[c])

\* two heartbeats on one channel, the second reduced from two proxies' reports
C1_Witness ==
    /\ env.effMono /\ ~env.lateJoin
    /\ \E c \in Channels : Len(stream[c]) = 2 /\ stream[c][1] < stream[c][2]
    /\ pc = "send" /\ DOMAIN proxyTimetick = ProxyIDs

\* the DDL timestamps that were in the barrier when every report of the
\* snapshot was submitted
Common(snap) == {ts \in Timestamps : \A id \in DOMAIN snap : ts \in snap[id].ddlAt}

\* some report of the snapshot carries no more than its defaultTs for the channel
FallsBack(snap, chanName) ==
    \E id \in DOMAIN snap : getTimetick(snap[id], chanName) <= snap[id].defaultTs

\* the reports in the table, in sendChan, in a blocked send and in startWatch
AllReports ==
    LET In(ptt) == {ptt[id] : id \in DOMAIN ptt} \ {Nil}
    IN  In(proxyTimeTick) \cup In(proxyTimetick)
          \cup UNION {In(sendChan[i]) : i \in 1..Len(sendChan)}
          \cup UNION {In(sending[i]) : i \in 1..Len(sending)}

\* C2 as stated: a heartbeat produced from a snapshot is at most every DDL
\* timestamp that was in the barrier at every updateTimeTick that contributed
\* to the snapshot.
C2_Original ==
    lastOp.op = "broadcast" => \A ts \in Common(proxyTimetick) : lastOp.ts <= ts

\* C2, amended: every report of a snapshot has a defaultTs that is at most
\* every DDL timestamp in the barrier when it was submitted, and a heartbeat
\* on a channel is at most every DDL timestamp common to all the reports
\* provided some report carries for the channel no more than its defaultTs
\* (updateTimeTick compares only defaultTs with the barrier).
C2_DdlSafety ==
    /\ \A r \in AllReports : \A ts \in r.ddlAt : r.defaultTs <= ts
    /\ lastOp.op = "broadcast" =>
          \A ts \in Common(proxyTimetick) :
              FallsBack(proxyTimetick, lastOp.chan) => lastOp.ts <= ts

\* a heartbeat of two reports that equals the DDL timestamp both were held to
C2_Witness ==
    /\ lastOp.op = "broadcast"
    /\ DOMAIN proxyTimetick = ProxyIDs
    /\ FallsBack(proxyTimetick, lastOp.chan)
    /\ lastOp.ts \in Common(proxyTimetick)
    /\ lastOp.ts < MaxUint64

\* C3 as stated: whenever a heartbeat is broadcast, its timestamp is at most
\* every timestamp in the DDL barrier at that moment.
C3_Original ==
    lastOp.op = "broadcast" => \A ts \in ddlTsSet : lastOp.ts <= ts

\* C3, amended: whenever a heartbeat is broadcast on a channel, its timestamp
\* is at most every timestamp that is in the DDL barrier at that moment and
\* was in it when each report of the snapshot was submitted, provided some
\* report carries for the channel no more than its defaultTs; a DDL added
\* after a report was admitted does not hold the snapshot back.
C3_OutstandingDdl ==
    lastOp.op = "broadcast" =>
        \A ts \in ddlTsSet \cap Common(proxyTimetick) :
            FallsBack(proxyTimetick, lastOp.chan) => lastOp.ts <= ts

\* a heartbeat that respects a DDL outstanding since before its reports and
\* overshoots one added after them
C3_Witness ==
    /\ lastOp.op = "broadcast"
    /\ FallsBack(proxyTimetick, lastOp.chan)
    /\ lastOp.ts \in ddlTsSet \cap Common(proxyTimetick)
    /\ \E ts \in ddlTsSet \ Common(proxyTimetick) : ts < lastOp.ts

\* C4 as stated: between an addDdlTimeTick and the next updateTimeTick call
\* at most one heartbeat is broadcast on every channel.
C4_Original == window.open => \A c \in Channels : window.n[c] <= 1

\* C4, amended: between an addDdlTimeTick and the next updateTimeTick call
\* the heartbeats broadcast on a channel number at most the snapshots that
\* were drained and not yet reduced for it at the addDdlTimeTick, plus one
\* that a delProxy may drain in between.
C4_Bounded ==
    window.open => \A c \in Channels : window.n[c] <= window.inflight[c] + 1

\* two heartbeats in the window: a queued snapshot and one drained by delProxy
C4_Witness ==
    /\ window.open
    /\ \E c \in Channels : window.inflight[c] = 1 /\ window.n[c] = 2
    /\ DOMAIN proxyTimeTick = {sourceID}

\* C5: sendToChannel drains (every entry moved into one snapshot and reset to
\* nil) exactly when the table it is called on, after the install or the
\* removal, is non-empty with every entry non-nil.
C5_Completeness ==
    [][LET drains == rounds' = rounds + 1
           sent == Head((sendChan' \o sending'))
       IN  /\ drains <=> (lastOp'.op \in {"updateTimeTick", "delProxy"}
                           /\ lastOp'.stc /\ lastOp'.full)
           /\ drains =>
                /\ AllNil(proxyTimeTick') /\ DOMAIN proxyTimeTick' # {}
                /\ InFlight' = InFlight + 1
           /\ ~drains /\ lastOp'.op # "watchRecv" =>
                /\ sendChan' = sendChan /\ sending' = sending
                /\ lastOp'.op \in {"updateTimeTick", "delProxy"} /\ lastOp'.stc
                      => ~Complete(proxyTimeTick')]_vars

\* an updateTimeTick that completed a round of two proxies and drained it
C5_Witness ==
    /\ lastOp.op = "updateTimeTick" /\ lastOp.stc /\ lastOp.full
    /\ rounds = 1 /\ Len(sendChan) = 1
    /\ DOMAIN sendChan[1] = ProxyIDs
    /\ DOMAIN proxyTimeTick = ProxyIDs /\ AllNil(proxyTimeTick)

\* C6: whenever the tick lock is free the table is empty, all nil, or mixed
\* with at least one nil entry: never non-empty with every entry non-nil.
C6_TableInvariant == LockFree => ~Complete(proxyTimeTick)

\* a delProxy removed the one idle proxy and drained what the other reported
C6_Witness ==
    /\ lastOp.op = "delProxy" /\ lastOp.full
    /\ LockFree
    /\ DOMAIN proxyTimeTick # {} /\ AllNil(proxyTimeTick)

\* C7: ddlMinTs is the minimum of ddlTsSet, and MaxUint64 when the set is empty.
C7_CachedMin ==
    ddlMinTs = IF ddlTsSet = {} THEN MaxUint64 ELSE SetMin(ddlTsSet)

\* a remove of the current minimum that left two timestamps to scan
C7_Witness ==
    /\ lastOp.op = "removeDdlTimeTick"
    /\ lastOp.ts = lastOp.before[1] /\ lastOp.ts \in lastOp.before[2]
    /\ Cardinality(ddlTsSet) >= 2

\* C8 as stated: getDdlMinTimeTick is never below the smallest outstanding
\* timestamp, and it is MaxUint64 if and only if the set is empty.
C8_Original ==
    /\ \A ts \in ddlTsSet : getDdlMinTimeTick <= ts
    /\ ddlTsSet # {} => getDdlMinTimeTick >= SetMin(ddlTsSet)
    /\ getDdlMinTimeTick = MaxUint64 <=> ddlTsSet = {}

\* C8, amended: getDdlMinTimeTick is never below the smallest outstanding
\* timestamp, and it is MaxUint64 if and only if the set holds no timestamp
\* other than MaxUint64 itself (empty, or only the reserved value was added).
C8_MinContract ==
    /\ ddlTsSet # {} => getDdlMinTimeTick >= SetMin(ddlTsSet)
    /\ getDdlMinTimeTick = MaxUint64 <=> ddlTsSet \subseteq {MaxUint64}

\* getDdlMinTimeTick returned MaxUint64 while MaxUint64 itself is outstanding
C8_Witness ==
    /\ lastOp.op = "getDdlMinTimeTick" /\ lastOp.ret = MaxUint64
    /\ ddlTsSet = {MaxUint64}

\* C9 as stated: a remove(ts) that directly follows add(ts) restores the
\* barrier as it was before the add, whether or not ts was in the set.
C9_Original ==
    lastOp.op = "removeDdlTimeTick" /\ lastOp.undo # <<>>
        => <<ddlMinTs, ddlTsSet>> = lastOp.undo[1]

\* C9, amended: a remove(ts) that directly follows add(ts) restores the
\* barrier as it was before the add provided ts was not in the set before
\* the add.
C9_RoundTrip ==
    /\ lastOp.op = "removeDdlTimeTick" /\ lastOp.undo # <<>>
    /\ lastOp.ts \notin lastOp.undo[1][2]
    => <<ddlMinTs, ddlTsSet>> = lastOp.undo[1]

\* add then remove of a timestamp below two outstanding ones
C9_Witness ==
    /\ lastOp.op = "removeDdlTimeTick" /\ lastOp.undo # <<>>
    /\ lastOp.ts \notin lastOp.undo[1][2]
    /\ Cardinality(ddlTsSet) >= 2
    /\ lastOp.ts < ddlMinTs

\* C10 as stated: a drain that finds sendChan full nils every entry, drops the
\* snapshot and returns, releasing the tick lock.
C10_Original ==
    [][rounds' = rounds + 1 /\ Len(sendChan) = QueueCap
         => AllNil(proxyTimeTick') /\ sendChan' = sendChan /\ sending' = <<>>]_vars

\* C10, what `t.sendChan <- ptt` does instead: every drain nils every entry
\* and no snapshot is dropped; a drain that finds sendChan full leaves its
\* caller blocked in the send with the snapshot, still holding the tick lock,
\* so that the table does not change until startWatch takes a snapshot and
\* the blocked one enters sendChan.
C10_Blocking ==
    [][LET drains == rounds' = rounds + 1
           taken == lastOp'.op = "watchRecv"
       IN  /\ drains => AllNil(proxyTimeTick')
           /\ InFlight' = InFlight + (IF drains THEN 1 ELSE 0) - (IF taken THEN 1 ELSE 0)
           /\ drains /\ Len(sendChan) = QueueCap
                => sendChan' = sendChan /\ Len(sending') = 1
           /\ sending # <<>>
                => /\ proxyTimeTick' = proxyTimeTick /\ rounds' = rounds
                   /\ Len(sendChan) = QueueCap
                   /\ sending' = sending
                        \/ (taken /\ sending' = <<>>
                              /\ sendChan' = Tail(sendChan) \o sending)]_vars

\* the seventeenth round with startWatch not yet scheduled: sixteen snapshots
\* queued, the caller blocked with the seventeenth
C10_Witness ==
    /\ rounds = QueueCap + 1
    /\ Len(sendChan) = QueueCap /\ Len(sending) = 1
    /\ AllNil(proxyTimeTick) /\ DOMAIN proxyTimeTick = {sourceID}
    /\ pc = "select" /\ proxyTimetick = <<>>

\* the state updateTimeTick, addProxy, delProxy and clearProxy can change is
\* as it was: the table with every cnt, sendChan, a pending send, the barrier
Untouched ==
    /\ proxyTimeTick' = proxyTimeTick
    /\ sendChan' = sendChan /\ sending' = sending /\ rounds' = rounds
    /\ ddlMinTs' = ddlMinTs /\ ddlTsSet' = ddlTsSet

\* the report has the shape spec section 4.3 calls Malformed
Malformed(in) ==
    \/ Len(in.ChannelNames) # Len(in.Timestamps)
    \/ Len(in.ChannelNames) = 0 /\ Len(in.Timestamps) = 0 /\ in.DefaultTimestamp = 0

\* C11 as stated: updateTimeTick from a SourceID that is not in the table
\* returns the unknown-proxy error and changes nothing.
C11_Original ==
    [][\A in \in Msgs :
         in.SourceID \notin DOMAIN proxyTimeTick /\ Tick(in)
            => lastOp'.err /\ lastOp'.why = "unrecognized" /\ Untouched]_vars

\* C11, amended: updateTimeTick from a SourceID that is not in the table
\* changes nothing and creates no entry; it returns the unknown-proxy error
\* when the lists have equal length and the report is not the empty one
\* (no channel names and defaultTs 0), the invalid-message error when the
\* lengths differ and names or defaultTs are set, and nil for a report with
\* no channel names and defaultTs 0.
C11_UnknownProxy ==
    [][\A in \in Msgs :
         in.SourceID \notin DOMAIN proxyTimeTick /\ Tick(in)
            => /\ Untouched
               /\ in.SourceID \notin DOMAIN proxyTimeTick'
               /\ IF Len(in.ChannelNames) = 0 /\ in.DefaultTimestamp = 0
                  THEN ~lastOp'.err /\ lastOp'.why = "ignored"
                  ELSE IF Len(in.ChannelNames) # Len(in.Timestamps)
                  THEN lastOp'.err /\ lastOp'.why = "invalid"
                  ELSE lastOp'.err /\ lastOp'.why = "unrecognized"]_vars

\* an unknown-proxy rejection while another proxy's report is in the table
C11_Witness ==
    /\ lastOp.op = "updateTimeTick" /\ lastOp.why = "unrecognized" /\ lastOp.err
    /\ \E id \in DOMAIN proxyTimeTick : proxyTimeTick[id] # Nil
    /\ rounds = 0 /\ sendChan = <<>>

\* C12 as stated: updateTimeTick returns an error and changes nothing
\* whenever the lists differ in length, or both are empty and defaultTs is 0.
C12_Original ==
    [][\A in \in Msgs :
         Malformed(in) /\ Tick(in) => lastOp'.err /\ Untouched]_vars

\* C12, amended: updateTimeTick changes nothing whenever the lists differ in
\* length, or both are empty and defaultTs is 0; it returns the
\* invalid-message error when the lengths differ and the report has a channel
\* name or a non-zero defaultTs, and returns nil, with no error, when the
\* report has no channel names and defaultTs is 0 (whatever its timestamps).
C12_Malformed ==
    [][\A in \in Msgs :
         Malformed(in) /\ Tick(in)
            => /\ Untouched
               /\ IF Len(in.ChannelNames) = 0 /\ in.DefaultTimestamp = 0
                  THEN ~lastOp'.err /\ lastOp'.why = "ignored"
                  ELSE lastOp'.err /\ lastOp'.why = "invalid"]_vars

\* an invalid-message rejection from a registered proxy holding a report
C12_Witness ==
    /\ lastOp.op = "updateTimeTick" /\ lastOp.why = "invalid" /\ lastOp.err
    /\ \E id \in DOMAIN proxyTimeTick : proxyTimeTick[id] # Nil

\* a report that is neither Malformed nor from an id outside the table
Admissible(in) == ~Malformed(in) /\ in.SourceID \in DOMAIN proxyTimeTick

\* the report is a coordinator report at or below the one the table holds
Regresses(in) ==
    /\ in.SourceID = sourceID
    /\ proxyTimeTick[sourceID] # Nil
    /\ in.DefaultTimestamp <= proxyTimeTick[sourceID].defaultTs

C14_Original ==
    [][\A in \in Reports(1..MaxTs) :
         /\ in.SourceID = sourceID /\ CoordTick(in)
         /\ in.DefaultTimestamp <= env.last[sourceID].def
         => lastOp'.why = "go back" /\ Untouched]_vars

\* C14, what updateTimeTick enforces: a coordinator report at or below the
\* report its table entry holds is discarded and changes nothing; once that
\* entry is nil again (drain, clearProxy, addProxy) or gone, any defaultTs
\* the barrier allows is accepted.
C14_WithinRound ==
    [][\A in \in Reports(1..MaxTs) :
         in.SourceID = sourceID /\ sourceID \in DOMAIN proxyTimeTick /\ CoordTick(in)
            => IF Regresses(in)
               THEN lastOp'.why = "go back" /\ Untouched /\ ~lastOp'.err
               ELSE lastOp'.why = "ok"]_vars

\* the coordinator's report of MaxTs was drained and a lower one accepted
C14_Witness ==
    /\ lastOp.op = "updateTimeTick" /\ lastOp.why = "ok"
    /\ sourceID \in DOMAIN proxyTimeTick /\ proxyTimeTick[sourceID] # Nil
    /\ proxyTimeTick[sourceID].defaultTs < MaxTs
    /\ env.last[sourceID].def = proxyTimeTick[sourceID].defaultTs
    /\ \E i \in 1..Len(sendChan) :
          sourceID \in DOMAIN sendChan[i] /\ sendChan[i][sourceID].defaultTs = MaxTs

\* tsFor of spec section 5: chanTs[channel] if present, else defaultTs
tsFor(report, chanName) ==
    IF chanName \in DOMAIN report.chanTs THEN report.chanTs[chanName]
    ELSE report.defaultTs

\* t is the least of tsFor over every proxy of the snapshot
LeastOver(snap, chanName, t) ==
    /\ \E p \in DOMAIN snap : tsFor(snap[p], chanName) = t
    /\ \A p \in DOMAIN snap : tsFor(snap[p], chanName) >= t

\* C15: for every snapshot startWatch takes and every channel of the
\* coordinator's chanTs, one worker runs, and the timestamp it broadcasts on
\* the channel is the minimum of tsFor over all proxies of the snapshot.
C15_HeartbeatValue ==
    [][/\ watchRecv /\ sourceID \in DOMAIN proxyTimetick'
          => workers' = DOMAIN proxyTimetick'[sourceID].chanTs
       /\ \A c \in Channels, ok \in BOOLEAN :
            worker(c, ok)
               => /\ c \in DOMAIN proxyTimetick[sourceID].chanTs
                  /\ LeastOver(proxyTimetick, c, lastOp'.ts)
                  /\ lastOp'.chan = c
                  /\ stream'[c] = Append(stream[c], lastOp'.ts)]_vars

\* scenario B: the coordinator reported a channel at MaxTs, the other proxy
\* lower, and the lower one was broadcast
C15_Witness ==
    /\ lastOp.op = "broadcast" /\ lastOp.ok
    /\ DOMAIN proxyTimetick = ProxyIDs
    /\ lastOp.chan \in DOMAIN proxyTimetick[sourceID].chanTs
    /\ proxyTimetick[sourceID].chanTs[lastOp.chan] = MaxTs
    /\ \E p \in ProxyIDs : tsFor(proxyTimetick[p], lastOp.chan) = lastOp.ts
    /\ lastOp.ts < MaxTs
    /\ stream[lastOp.chan] = <<lastOp.ts>>

\* the coordinator is the only proxy and has not reported in this round
CoordinatorAlone == DOMAIN proxyTimeTick = {sourceID} /\ proxyTimeTick[sourceID] = Nil

\* scenario C's reports: from the coordinator, no channel names, a defaultTs
DefaultOnly ==
    {in \in Reports(1..MaxTs) : in.SourceID = sourceID /\ Len(in.ChannelNames) = 0}

\* scenario C up to the snapshot: with the coordinator alone, a DefaultOnly
\* report above the barrier minimum is dropped with nothing changed, and once
\* the minimum allows it the same report is accepted and completes the round,
\* its snapshot entering sendChan
BarrierRelease ==
    \A in \in DefaultOnly :
       CoordinatorAlone /\ DdlTick(in)
          => IF in.DefaultTimestamp > ddlMinTs
             THEN Untouched /\ ~lastOp'.err /\ stream' = stream
             ELSE /\ lastOp'.why = "ok" /\ lastOp'.full
                  /\ rounds' = rounds + 1
                  /\ Len(sendChan') = Len(sendChan) + 1
                  /\ sendChan'[Len(sendChan')][sourceID].defaultTs = in.DefaultTimestamp
                  /\ DOMAIN sendChan'[Len(sendChan')] = {sourceID}

\* startWatch takes the snapshot of a DefaultOnly report of the coordinator alone
TakesDefaultOnly ==
    /\ watchRecv
    /\ DOMAIN proxyTimetick' = {sourceID}
    /\ DOMAIN proxyTimetick'[sourceID].chanTs = {}

\* C16 as stated: the report above the barrier is dropped, after the remove
\* the same report completes the round, and its snapshot results in a
\* heartbeat broadcast.
C16_Original ==
    [][/\ BarrierRelease
       /\ TakesDefaultOnly => pc' = "send" /\ workers' # {}]_vars

\* C16, amended: the report above the barrier is dropped with no broadcast,
\* after the remove the same report is accepted and completes the round, and
\* startWatch takes its snapshot and skips it: the coordinator's report names
\* no channel, so no worker starts and nothing is broadcast.
C16_BarrierRelease ==
    [][/\ BarrierRelease
       /\ TakesDefaultOnly
            => pc' = "select" /\ workers' = {} /\ stream' = stream]_vars

\* the coordinator's DefaultOnly report, accepted with the barrier empty
\* again, was taken by startWatch and nothing has been broadcast
C16_Witness ==
    /\ lastOp.op = "watchRecv"
    /\ DOMAIN proxyTimetick = {sourceID}
    /\ DOMAIN proxyTimetick[sourceID].chanTs = {}
    /\ proxyTimetick[sourceID].defaultTs > 0
    /\ ddlTsSet = {} /\ ddlMinTs = MaxUint64
    /\ pc = "select" /\ sendChan = <<>>
    /\ \A c \in Channels : stream[c] = <<>>

\* C17 as stated: addProxy(id) of an id that has an entry leaves the table
\* identical, also when the entry holds a report.
C17_Original ==
    [][\A id \in ProxyIDs :
         id \in DOMAIN proxyTimeTick /\ Join(id) => Untouched]_vars

\* C17, amended: addProxy(id) of an id that has an entry sets that entry to
\* nil and changes nothing else: the table is identical when the entry was
\* nil, and a report it held for the round in progress is discarded with its
\* cnt. After any addProxy(id) the entry is nil, so addProxy(x); addProxy(x)
\* equals addProxy(x).
C17_AddProxyResets ==
    [][\A id \in ProxyIDs :
         Join(id)
            => /\ id \in DOMAIN proxyTimeTick
                    => proxyTimeTick' = [proxyTimeTick EXCEPT ![id] = Nil]
               /\ proxyTimeTick'[id] = Nil
               /\ DOMAIN proxyTimeTick' = DOMAIN proxyTimeTick \cup {id}
               /\ \A k \in DOMAIN proxyTimeTick \ {id} :
                    proxyTimeTick'[k] = proxyTimeTick[k]
               /\ sendChan' = sendChan /\ sending' = sending /\ rounds' = rounds
               /\ ~lastOp'.err /\ ~lastOp'.stc]_vars

\* addProxy of a proxy whose report was in the table: the report is gone
C17_Witness ==
    /\ lastOp.op = "addProxy" /\ lastOp.why = "reported"
    /\ DOMAIN proxyTimeTick = ProxyIDs /\ AllNil(proxyTimeTick)
    /\ rounds = 0

\* C18: delProxy(x) of an id with no entry changes neither the table nor the
\* queue, attempts no drain and emits no idle warning.
C18_RemoveAbsent ==
    [][\A id \in ProxyIDs :
         id \notin DOMAIN proxyTimeTick /\ Leave(id)
            => Untouched /\ ~lastOp'.stc /\ ~lastOp'.warn /\ ~lastOp'.err]_vars

\* delProxy of an absent id on a table for which sendToChannel would warn
C18_Witness ==
    /\ lastOp.op = "delProxy" /\ lastOp.why = "absent"
    /\ DOMAIN proxyTimeTick # {} /\ sendToChannel(proxyTimeTick).warn

\* C19: delProxy(id) of a present id drops the entry, and drains exactly when
\* the remaining table is non-empty with every entry non-nil; the drain puts
\* one snapshot of the remaining reports behind the queued ones and leaves
\* every remaining entry nil; otherwise the remaining entries stay as they are.
C19_RemoveDrains ==
    [][\A id \in ProxyIDs :
         id \in DOMAIN proxyTimeTick /\ Leave(id)
            => LET rest == [k \in DOMAIN proxyTimeTick \ {id} |-> proxyTimeTick[k]]
               IN  /\ DOMAIN proxyTimeTick' = DOMAIN rest
                   /\ rounds' = rounds + 1 <=> Complete(rest)
                   /\ IF Complete(rest)
                      THEN /\ sendChan' \o sending' = Append(sendChan \o sending, rest)
                           /\ AllNil(proxyTimeTick')
                      ELSE /\ proxyTimeTick' = rest
                           /\ sendChan' = sendChan /\ sending' = sending]_vars

\* the idle proxy was removed and the other proxy's report drained
C19_Witness ==
    /\ lastOp.op = "delProxy" /\ lastOp.full
    /\ rounds = 1 /\ Len(sendChan) = 1
    /\ DOMAIN sendChan[1] = DOMAIN proxyTimeTick
    /\ Cardinality(DOMAIN proxyTimeTick) = MaxProxy - 1
    /\ \A k \in DOMAIN sendChan[1] : sendChan[1][k] # Nil
    /\ AllNil(proxyTimeTick)

\* C20 as stated: every drained snapshot has an entry for the coordinator's
\* own id, and startWatch never crashes reading local.chanTs.
C20_Original ==
    /\ \A i \in 1..Len(sendChan) : sourceID \in DOMAIN sendChan[i]
    /\ \A i \in 1..Len(sending) : sourceID \in DOMAIN sending[i]
    /\ pc # "panic"

\* C21 as stated: once startWatch has stopped it has closed sendChan, every
\* worker it started has finished, and no caller is left waiting in a send.
C21_Original ==
    pc = "stopped" => closed /\ workers = {} /\ sending = <<>>

\* C21, what startWatch does on cancellation: it returns from the select,
\* never with a worker in flight, and from then on takes no snapshot and
\* broadcasts nothing; sendChan is left open with whatever it holds, callers
\* can still send into it, and one blocked in the send stays blocked.
C21_StopsWithoutClosing ==
    [][/\ watchDone => ctxDone /\ workers = {} /\ sendChan' = sendChan
       /\ pc = "stopped"
            => /\ pc' = "stopped" /\ stream' = stream /\ proxyTimetick' = proxyTimetick
               /\ Len(sendChan') >= Len(sendChan)
               /\ sending # <<>> => sending' = sending
       /\ ~closed']_vars

\* startWatch has returned and left a snapshot in the open sendChan
C21_Witness ==
    pc = "stopped" /\ ~closed /\ sendChan # <<>> /\ lastOp.op = "updateTimeTick"

\* C22: a failed broadcast on one channel changes neither the table, the
\* queue nor the barrier and leaves the workers of the other channels to
\* run; startWatch waits until every channel of the coordinator's chanTs had
\* its worker, failed or not, and then goes back to its select, where the
\* next snapshot is taken whatever failed before.
C22_FailureContained ==
    [][/\ \A c \in FanChannels :
            worker(c, FALSE)
               => /\ Untouched /\ ctxDone' = ctxDone
                  /\ pc' = "send" /\ workers' = workers \ {c}
                  /\ proxyTimetick' = proxyTimetick
       /\ watchJoin
            => /\ workers = {} /\ pc' = "select"
               /\ \A c \in DOMAIN proxyTimetick[sourceID].chanTs : iter.sent[c] = 1
       /\ pc = "select" /\ sendChan # <<>> /\ watchRecv
            => proxyTimetick' = Head(sendChan)]_vars

\* the first channel's broadcast failed and the second channel's worker
\* then broadcast
C22_Witness ==
    /\ lastOp.op = "broadcast" /\ lastOp.ok /\ lastOp.chan = MaxChan + 1
    /\ iter.failed = {1} /\ iter.sent[1] = 1 /\ iter.sent[MaxChan + 1] = 1
    /\ workers = {} /\ pc = "send"

\* C23: every call of sendTimeTickToChannel by a worker carries a pack of
\* exactly one TimeTickMsg with MsgType TimeTick, MsgID 0, Timestamp minTs,
\* SourceID the coordinator's, BeginTimestamp = EndTimestamp = minTs and
\* HashValues [0], for exactly the worker's own channel.
C23_HeartbeatPack ==
    [][\A c \in FanChannels, ok \in BOOLEAN :
         worker(c, ok)
            => LET call == lastOp'.call
                   msg == call.msgPack.Msgs[1]
               IN  /\ call.chanNames = <<c>>
                   /\ Len(call.msgPack.Msgs) = 1
                   /\ LeastOver(proxyTimetick, c, msg.Base.Timestamp)
                   /\ msg.Base.MsgType = "TimeTick" /\ msg.Base.MsgID = 0
                   /\ msg.Base.SourceID = sourceID
                   /\ msg.BaseMsg.BeginTimestamp = msg.Base.Timestamp
                   /\ msg.BaseMsg.EndTimestamp = msg.Base.Timestamp
                   /\ msg.BaseMsg.HashValues = <<0>>]_vars

\* a heartbeat for the second channel, lower than the coordinator's own
\* timestamp for it
C23_Witness ==
    /\ lastOp.op = "broadcast" /\ lastOp.ok
    /\ lastOp.call.chanNames = <<MaxChan + 1>>
    /\ lastOp.call.msgPack.Msgs[1].Base.Timestamp < proxyTimetick[sourceID].chanTs[MaxChan + 1]
    /\ DOMAIN proxyTimetick[sourceID].chanTs = FanChannels

\* C30: for each snapshot startWatch starts one worker per channel key of the
\* coordinator's own chanTs, each calls sendTimeTickToChannel once for its
\* channel, and no channel that only other proxies report gets a call; a
\* snapshot whose coordinator chanTs is empty is skipped with no call at all.
C30_ChannelSet ==
    [][/\ watchRecv /\ sourceID \in DOMAIN proxyTimetick'
          => /\ workers' = DOMAIN proxyTimetick'[sourceID].chanTs
             /\ workers' = {} => pc' = "select" /\ stream' = stream
       /\ \A c \in FanChannels, ok \in BOOLEAN :
            worker(c, ok)
               => /\ c \in DOMAIN proxyTimetick[sourceID].chanTs
                  /\ iter.sent[c] = 0 /\ iter'.sent[c] = 1
                  /\ Len(stream'[c]) = Len(stream[c]) + 1
                  /\ \A d \in FanChannels \ {c} : stream'[d] = stream[d]
       /\ watchJoin
            => \A c \in FanChannels :
                 iter.sent[c] = IF c \in DOMAIN proxyTimetick[sourceID].chanTs
                                THEN 1 ELSE 0]_vars

\* an iteration is over: one heartbeat on the coordinator's only channel and
\* none on the channel that only the other proxy reported
C30_Witness ==
    /\ lastOp.op = "watchJoin"
    /\ DOMAIN proxyTimetick = ProxyIDs
    /\ DOMAIN proxyTimetick[sourceID].chanTs = {1}
    /\ \E p \in ProxyIDs : MaxChan + 1 \in DOMAIN proxyTimetick[p].chanTs
    /\ iter.sent[1] = 1 /\ iter.sent[MaxChan + 1] = 0
    /\ stream[MaxChan + 1] = <<>>

\* the entry of id after the call: in the table, or in the snapshot the call
\* drained
EntryAfter(id) ==
    IF rounds' = rounds + 1
    THEN (sendChan' \o sending')[Len(sendChan') + Len(sending')][id]
    ELSE proxyTimeTick'[id]

C27_ProxyMayRegress ==
    [][\A in \in Msgs :
         /\ Admissible(in) /\ in.SourceID # sourceID
         /\ in.DefaultTimestamp <= ddlMinTs
         /\ Tick(in)
         => /\ lastOp'.why = "ok" /\ ~lastOp'.err
            /\ EntryAfter(in.SourceID).chanTs = ChanTsOf(in)
            /\ EntryAfter(in.SourceID).defaultTs = in.DefaultTimestamp
            /\ \A k \in DOMAIN proxyTimeTick \ {in.SourceID} :
                 EntryAfter(k) = proxyTimeTick[k]]_vars

\* the other proxy's second report of the round, with defaultTs 0 and a
\* channel timestamp below MaxTs, is in the table
C27_Witness ==
    /\ lastOp.op = "updateTimeTick" /\ lastOp.why = "ok"
    /\ \E id \in DOMAIN proxyTimeTick \ {sourceID} :
         /\ proxyTimeTick[id] # Nil /\ proxyTimeTick[id].cnt = 2
         /\ proxyTimeTick[id].defaultTs = 0
         /\ \E c \in DOMAIN proxyTimeTick[id].chanTs : proxyTimeTick[id].chanTs[c] < MaxTs

C29_DrainContent ==
    [][rounds' = rounds + 1
         => LET was == sendChan \o sending
                now == sendChan' \o sending'
                snap == now[Len(now)]
            IN  /\ Len(now) = Len(was) + 1
                /\ SubSeq(now, 1, Len(was)) = was
                /\ DOMAIN snap = DOMAIN proxyTimeTick' /\ DOMAIN snap # {}
                /\ DOMAIN snap \subseteq DOMAIN proxyTimeTick
                /\ \A k \in DOMAIN snap : snap[k] # Nil
                /\ AllNil(proxyTimeTick')
                /\ Cardinality({k \in DOMAIN snap : snap[k] # proxyTimeTick[k]}) <= 1]_vars

\* a drained round of two proxies in which the second proxy reported twice
C29_Witness ==
    /\ rounds = 1 /\ Len(sendChan) = 1
    /\ DOMAIN sendChan[1] = ProxyIDs
    /\ \E id \in ProxyIDs \ {sourceID} : sendChan[1][id].cnt = MaxCnt
    /\ DOMAIN proxyTimeTick = ProxyIDs /\ AllNil(proxyTimeTick)

C25_DrainAtomic ==
    [][/\ \A t \in Threads : thr'.pc[t] \in Locked => thr'.lock = t
       /\ \A t \in Threads :
            thr'.pc[t] \in {"stc_move", "stc_send"}
               => LET seen == thr'.loc[t].seen
                      ptt == thr'.loc[t].ptt
                  IN  /\ DOMAIN proxyTimeTick' = DOMAIN seen
                      /\ DOMAIN ptt \subseteq DOMAIN seen
                      /\ \A k \in DOMAIN seen :
                           /\ seen[k] # Nil
                           /\ IF k \in DOMAIN ptt
                              THEN ptt[k] = seen[k] /\ proxyTimeTick'[k] = Nil
                              ELSE proxyTimeTick'[k] = seen[k]
       /\ rounds' = rounds + 1
            => \E t \in Threads :
                 /\ thr.pc[t] = "stc_send"
                 /\ sendChan' = Append(sendChan, thr.loc[t].seen)
                 /\ DOMAIN proxyTimeTick' = DOMAIN thr.loc[t].seen
                 /\ AllNil(proxyTimeTick')]_vars

\* a drain has moved one of two entries while another goroutine waits for
\* t.lock with a report
C25_Witness ==
    \E t, u \in Threads :
        /\ thr.pc[t] = "stc_move" /\ thr.pc[u] = "ut_lock"
        /\ \E k \in DOMAIN proxyTimeTick : proxyTimeTick[k] = Nil
        /\ \E k \in DOMAIN proxyTimeTick : proxyTimeTick[k] # Nil

\* C31 as stated: clearProxy sets the listed entries to nil, leaves the
\* others alone, keeps the set of registered proxies and drains nothing.
C31_Original ==
    [][\A ids \in SUBSET ProxyIDs :
         Clear(ids)
            => /\ DOMAIN proxyTimeTick' = DOMAIN proxyTimeTick
               /\ \A k \in DOMAIN proxyTimeTick :
                    proxyTimeTick'[k] = IF k \in ids THEN Nil ELSE proxyTimeTick[k]
               /\ sendChan' = sendChan /\ sending' = sending /\ rounds' = rounds
               /\ ~lastOp'.stc]_vars

\* C31, amended: clearProxy gives every listed id a nil entry, registering
\* the ids that were not in the table; it leaves the unlisted entries and the
\* barrier alone, calls no sendToChannel and sends nothing.
C31_ClearProxy ==
    [][\A ids \in SUBSET ProxyIDs :
         Clear(ids)
            => /\ DOMAIN proxyTimeTick' = DOMAIN proxyTimeTick \cup ids
               /\ \A k \in ids : proxyTimeTick'[k] = Nil
               /\ \A k \in DOMAIN proxyTimeTick \ ids :
                    proxyTimeTick'[k] = proxyTimeTick[k]
               /\ sendChan' = sendChan /\ sending' = sending /\ rounds' = rounds
               /\ ddlMinTs' = ddlMinTs /\ ddlTsSet' = ddlTsSet
               /\ ~lastOp'.stc /\ ~lastOp'.err]_vars

\* after a round, clearProxy named an id the table did not have: every
\* proxy is registered again, with a nil entry
C31_Witness ==
    /\ lastOp.op = "clearProxy" /\ lastOp.why = "new"
    /\ rounds = 1
    /\ DOMAIN proxyTimeTick = ProxyIDs /\ AllNil(proxyTimeTick)

\* the call reached sendToChannel, which found an idle proxy
Aborted ==
    /\ lastOp'.op \in {"updateTimeTick", "delProxy"}
    /\ lastOp'.stc /\ ~lastOp'.full
    /\ DOMAIN proxyTimeTick' # {}

\* C32: a sendToChannel that finds an idle proxy sends nothing and sets no
\* entry to nil, and warns exactly when the largest cnt of the reported
\* entries is a multiple of 10. When one proxy has made n accepted reports
\* since addProxy or delProxy was last called and every other stayed idle, the
\* warnings of those calls are those at cnt 10, 20, ... up to n, each naming
\* the idle proxies, and nothing was sent: three warnings after 30 reports.
C32_WarningThrottle ==
    [][/\ Aborted
            => /\ sendChan' = sendChan /\ sending' = sending /\ rounds' = rounds
               /\ \A in \in WarnReports : WarnTick(in) => proxyTimeTick' = Install(in)
               /\ lastOp'.warn <=> MaxCntOf(proxyTimeTick') % 10 = 0
       /\ \A r \in DOMAIN proxyTimeTick' :
            /\ proxyTimeTick'[r] # Nil /\ proxyTimeTick'[r].cnt = env'.ticks
            /\ IdleProxyList(proxyTimeTick') = DOMAIN proxyTimeTick' \ {r}
            /\ IdleProxyList(proxyTimeTick') # {}
            => /\ env'.warns =
                    [i \in 1..(proxyTimeTick'[r].cnt \div 10) |->
                                    [cnt |-> 10 * i,
                                     idle |-> DOMAIN proxyTimeTick' \ {r}]]
               /\ rounds' = env'.since]_vars

\* the thirtieth report of a proxy whose peer is idle has just warned
C32_Witness ==
    /\ lastOp.op = "updateTimeTick" /\ lastOp.warn
    /\ DOMAIN proxyTimeTick = {1, 2} /\ sendChan = <<>>
    /\ \E r \in {1, 2} :
         /\ proxyTimeTick[r] # Nil /\ proxyTimeTick[r].cnt = 30
         /\ proxyTimeTick[3 - r] = Nil
    /\ Len(env.warns) = 3 /\ env.warns[3].cnt = 30

\* C33 as stated: no idle-proxy warning is emitted when max(cnt) = 0, whether
\* the drain attempt comes from updateTimeTick or from delProxy.
C33_Original ==
    lastOp.op \in {"updateTimeTick", "delProxy"} /\ lastOp.warn
        => MaxCntOf(proxyTimeTick) > 0

\* C34: sendChan never holds more than its capacity of 16 snapshots, however
\* many rounds complete while startWatch takes none; the snapshot of a caller
\* blocked in the send is not in the channel.
C34_QueueBound ==
    /\ Len(sendChan) <= QueueCap
    /\ sending # <<>> => Len(sendChan) = QueueCap /\ Len(sending) = 1

\* seventeen rounds completed and none taken: sixteen snapshots in sendChan,
\* the caller of the seventeenth blocked in its send
C34_Witness ==
    /\ rounds = QueueCap + 1 /\ pc = "select"
    /\ Len(sendChan) = QueueCap /\ sending # <<>>

\* C35: startWatch takes a snapshot from sendChan only when no worker of the
\* snapshot before is left, and waits for all of them before it goes back to
\* its select; every broadcast is computed from the snapshot taken last, and
\* a channel has at most one worker at a time, so that on each channel the
\* broadcasts of one snapshot precede those of the next.
C35_JoinBarrier ==
    [][/\ watchRecv => workers = {} /\ pc = "select"
       /\ proxyTimetick' # proxyTimetick => workers = {} /\ lastOp'.op = "watchRecv"
       /\ workers' # {} => pc' = "send"
       /\ pc = "send" /\ pc' # "send" => workers = {} /\ pc' = "select"
       /\ \A c \in FanChannels, ok \in BOOLEAN :
            worker(c, ok)
               => /\ c \in workers /\ c \notin workers'
                  /\ iter.sent[c] = 0
                  /\ proxyTimetick' = proxyTimetick /\ sendChan' = sendChan
                  /\ stream'[c] = Append(stream[c], MinTs(proxyTimetick, c))]_vars

\* one worker of a snapshot has broadcast and the other is still running
\* while the next snapshot waits in sendChan
C35_Witness ==
    /\ pc = "send" /\ sendChan # <<>>
    /\ \E c \in FanChannels : workers = {c} /\ iter.sent[c] = 0
    /\ \E c \in FanChannels : iter.sent[c] = 1

\* C36: sendChan is first in, first out: a drain puts its snapshot behind
\* every snapshot sent before and still waiting, startWatch takes the oldest
\* one and removes it, and nothing else adds, removes or reorders snapshots;
\* so snapshots are processed in the order of their drains, each at most once.
C36_DrainOrder ==
    [][LET was == sendChan \o sending
           now == sendChan' \o sending'
       IN  IF rounds' = rounds + 1
           THEN Len(now) = Len(was) + 1 /\ SubSeq(now, 1, Len(was)) = was
           ELSE IF lastOp'.op = "watchRecv"
           THEN /\ was # <<>> /\ pc = "select"
                /\ proxyTimetick' = was[1]
                /\ now = SubSeq(was, 2, Len(was))
           ELSE now = was /\ proxyTimetick' = proxyTimetick]_vars

\* of two different snapshots startWatch took the older one; the newer one
\* waits in sendChan
C36_Witness ==
    /\ lastOp.op = "watchRecv" /\ rounds = 2
    /\ Len(sendChan) = 1 /\ sendChan[1] # proxyTimetick

\* C37: no call of updateTimeTick, addProxy, delProxy, clearProxy,
\* addDdlTimeTick or removeDdlTimeTick changes a snapshot that is in sendChan
\* or the one startWatch is working on: their keys and their reports (chanTs,
\* defaultTs, cnt) stay as the drain left them; a call can only put a new
\* snapshot behind them.
C37_SnapshotFrozen ==
    [][lastOp'.op \in {"updateTimeTick", "addProxy", "delProxy", "clearProxy",
                       "addDdlTimeTick", "removeDdlTimeTick"}
         => LET was == sendChan \o sending
                now == sendChan' \o sending'
            IN  /\ Len(now) >= Len(was)
                /\ \A i \in 1..Len(was) :
                     /\ DOMAIN now[i] = DOMAIN was[i]
                     /\ \A k \in DOMAIN was[i] : now[i][k] = was[i][k]
                /\ proxyTimetick' = proxyTimetick
                /\ workers' = workers /\ stream' = stream]_vars

\* a snapshot waits in sendChan while a proxy that is in it has a different
\* report in the table and a DDL operation is in progress
C37_Witness ==
    /\ Len(sendChan) = 1 /\ DOMAIN sendChan[1] = ProxyIDs
    /\ \E id \in DOMAIN proxyTimeTick :
         proxyTimeTick[id] # Nil /\ proxyTimeTick[id] # sendChan[1][id]
    /\ ddlTsSet # {}

\* goroutine t is blocked: in a Lock() of a mutex another holds, or in the
\* send into a full sendChan
Waiting(t) ==
    \/ thr.pc[t] \in {"ut_lock", "ap_lock", "dp_lock", "cp_lock", "gp_lock"}
         /\ thr.lock # 0
    \/ thr.pc[t] \in {"ut_ddlLock", "ad_lock", "rd_lock"} /\ thr.ddl # 0
    \/ thr.pc[t] = "stc_send" /\ Len(sendChan) >= QueueCap

\* C38: while startWatch runs, whenever a goroutine is blocked on t.lock,
\* t.ddlLock or the full sendChan, another goroutine inside a method is not
\* blocked or startWatch is (taking a snapshot or broadcasting, and about to
\* make room); and the holder of t.ddlLock is never blocked.
C38_NoDeadlock ==
    /\ (\E t \in Threads : Waiting(t))
         => \/ \E u \in Threads : thr.pc[u] # "idle" /\ ~Waiting(u)
            \/ pc = "send"
            \/ pc = "select" /\ sendChan # <<>>
    /\ \A t \in Threads :
         thr.ddl = t => ~Waiting(t) /\ thr.pc[t] \in {"ut_ddlRead", "ad_body", "rd_body"}

\* sendChan is full: one goroutine is blocked in its send holding t.lock,
\* the other waits for t.lock, and only startWatch can move
C38_Witness ==
    /\ \A t \in Threads : Waiting(t)
    /\ \E t \in Threads : thr.pc[t] = "stc_send" /\ thr.lock = t
    /\ Len(sendChan) = QueueCap

\* C39 as stated, in the form a finite run refutes: while the context is not
\* cancelled every snapshot in sendChan is eventually taken by startWatch, so
\* startWatch is in its loop (at the select, or waiting for its workers)
\* whenever a snapshot is in sendChan.
C39_Original ==
    ~ctxDone /\ sendChan # <<>> => pc \in {"select", "send"}

\* the arguments of the call that are not zero
NonZero(tt) == {tt[i] : i \in 1..Len(tt)} \ {0}

\* C40 as stated: minTimeTick returns 0 for no argument and otherwise the
\* smallest of its arguments that are not zero (0 when all are zero),
\* whatever their order.
C40_Original ==
    env.ret # <<>>
        => env.ret[1] = IF NonZero(env.tt) = {} THEN 0 ELSE SetMin(NonZero(env.tt))

====
